---- MODULE Spec2Model ----
(***************************************************************************)
(* Model of the ConfigMap-triggered rolling restart reconciler             *)
(* (internal/controller/configmap_controller.go).                          *)
(*                                                                         *)
(* The cluster (ConfigMaps, Pods, PodDisruptionBudgets, AutoApplyConfig    *)
(* objects) is the environment; each worker of the controller runs         *)
(* Reconcile as a sequence of steps, one per call to the cluster API or to *)
(* the shared version store, so that the environment and other workers     *)
(* can interleave exactly where the Go code lets them.                     *)
(***************************************************************************)
EXTENDS Integers, Sequences, FiniteSets, TLC

(***************************************************************************)
(* Bounds of the model.                                                    *)
(***************************************************************************)
\* Highest resourceVersion a ConfigMap reaches.
MaxVersion == 2
\* Highest number of poll iterations that fit before the deadline.
MaxPolls == 2
\* Highest number of times the owner of a pod recreates it.
MaxInc == 1

(***************************************************************************)
(* Sentinels.                                                              *)
(***************************************************************************)
\* A nil pointer to a name (vol.ConfigMap == nil, no controller owner ...).
Nil == "<nil>"

\* A pointer to a structure: None is nil, Some(x) points to x.
None == <<>>

Some(x) == <<x>>

Deref(ptr) == ptr[1]

(***************************************************************************)
(* Sequence helpers.                                                       *)
(***************************************************************************)
Range(s) == {s[i] : i \in 1..Len(s)}

(***************************************************************************)
(* Regular expressions.  A pattern is a sequence of tokens: a literal      *)
(* piece of text, "^" (start of text), "$" (end of text), ".*" (any run of *)
(* characters) and "(" (an unclosed group, which does not compile).  A     *)
(* name is a sequence of literal pieces.                                   *)
(***************************************************************************)
\* regexp.Compile: ok is FALSE for a pattern that does not compile.
Compile(pattern) ==
    [ok |-> "(" \notin Range(pattern), prog |-> pattern]

RECURSIVE MatchHere(_, _)
MatchHere(prog, text) ==
    IF prog = <<>> THEN TRUE
    ELSE IF Head(prog) = "$" THEN Len(prog) = 1 /\ text = <<>>
    ELSE IF Head(prog) = ".*"
         THEN \E k \in 0..Len(text) :
                  MatchHere(Tail(prog), SubSeq(text, k + 1, Len(text)))
    ELSE /\ text # <<>>
         /\ Head(text) = Head(prog)
         /\ MatchHere(Tail(prog), Tail(text))

\* (*Regexp).MatchString: an unanchored search, unless the pattern anchors.
MatchString(prog, text) ==
    IF prog # <<>> /\ Head(prog) = "^"
    THEN MatchHere(Tail(prog), text)
    ELSE \E k \in 0..Len(text) : MatchHere(prog, SubSeq(text, k + 1, Len(text)))

\* isPodExcluded returning after the first pattern.
isPodExcluded_firstOnly(podName, patterns) ==
    patterns # <<>> /\ MatchString(patterns[1], podName)

\* isPodExcluded: the pod name matches any exclusion pattern.
isPodExcluded(podName, patterns) ==
    \E i \in 1..Len(patterns) : MatchString(patterns[i], podName)

(***************************************************************************)
(* The pods of the cluster.  What a campaign never changes of a pod (its   *)
(* namespace, name, labels, owner and spec) is a table; phase, readiness,  *)
(* deletion and identity are state.                                        *)
(***************************************************************************)
Namespaces == {"ns1", "ns2"}

\* A container with no reference to any ConfigMap.
PlainContainer == [envFrom |-> <<>>, env |-> <<>>]

NoSpec == [volumes |-> <<>>, containers |-> <<PlainContainer>>, initContainers |-> <<>>]

VolumeSpec(cm) ==
    [NoSpec EXCEPT !.volumes = <<[configMap |-> cm, projected |-> None]>>]

ProjectedSpec(cm) ==
    [NoSpec EXCEPT !.volumes =
        <<[configMap |-> Nil,
           projected |-> Some([sources |-> <<[configMap |-> Nil], [configMap |-> cm]>>])]>>]

EnvFromSpec(cm) ==
    [NoSpec EXCEPT !.containers = <<[envFrom |-> <<[configMapRef |-> cm]>>, env |-> <<>>]>>]

InitEnvSpec(cm) ==
    [NoSpec EXCEPT !.initContainers =
        <<[envFrom |-> <<>>, env |-> <<[valueFrom |-> None],
                                    [valueFrom |-> Some([configMapKeyRef |-> cm])]>>]>>]

\* An individual environment entry of a regular container, after an entry
\* that reads from something else than a ConfigMap.
EnvSpec(cm) ==
    [NoSpec EXCEPT !.containers =
        <<[envFrom |-> <<>>, env |-> <<[valueFrom |-> Some([configMapKeyRef |-> Nil])],
                                    [valueFrom |-> Some([configMapKeyRef |-> cm])]>>]>>]

\* A bulk import of an init container, after one from something else than a
\* ConfigMap.
InitEnvFromSpec(cm) ==
    [NoSpec EXCEPT !.initContainers =
        <<[envFrom |-> <<[configMapRef |-> Nil], [configMapRef |-> cm]>>, env |-> <<>>]>>]

PodIds == {"p1", "p2", "p3", "p5", "p6", "q1", "q2", "q3", "q4"}

\* The order in which a List call returns the pods.
PodOrder == <<"p1", "p2", "p3", "p5", "p6", "q1", "q2", "q3", "q4">>

PodTable ==
    [p \in PodIds |->
        CASE p = "p1" -> [ns |-> "ns1", name |-> <<"k", "a">>, labels |-> {"app=a"},
                          owner |-> "o1", spec |-> VolumeSpec("cm")]
          [] p = "p2" -> [ns |-> "ns1", name |-> <<"w", "-csi-", "a">>, labels |-> {"app=a", "tier=x"},
                          owner |-> "o1", spec |-> InitEnvSpec("cm")]
          [] p = "p3" -> [ns |-> "ns1", name |-> <<"w", "b">>, labels |-> {"app=b"},
                          owner |-> Nil, spec |-> ProjectedSpec("cm")]
          [] p = "p5" -> [ns |-> "ns1", name |-> <<"w", "c">>, labels |-> {"app=a"},
                          owner |-> "o2", spec |-> EnvFromSpec("other")]
          [] p = "p6" -> [ns |-> "ns1", name |-> <<"j", "a">>, labels |-> {"app=b"},
                          owner |-> Nil, spec |-> VolumeSpec("cm")]
          [] p = "q1" -> [ns |-> "ns2", name |-> <<"w", "a">>, labels |-> {"app=a"},
                          owner |-> "o1", spec |-> VolumeSpec("cm")]
          [] p = "q2" -> [ns |-> "ns2", name |-> <<"e", "a">>, labels |-> {"app=a"},
                          owner |-> Nil, spec |-> EnvSpec("cm")]
          [] p = "q3" -> [ns |-> "ns2", name |-> <<"i", "a">>, labels |-> {"app=a"},
                          owner |-> Nil, spec |-> InitEnvFromSpec("cm")]
          [] p = "q4" -> [ns |-> "ns2", name |-> <<"n", "a">>, labels |-> {"app=a"},
                          owner |-> Nil, spec |-> NoSpec]]

\* The state of the pods when the controller starts.
InitPods ==
    [p \in PodIds |->
        [exists |-> TRUE,
         phase |-> IF p = "p6" THEN "Succeeded" ELSE "Running",
         ready |-> p # "p6",
         deleting |-> FALSE,
         uid |-> 0]]

\* podUsesConfigMap without the loop over the init containers.
podUsesConfigMap_noInit(spec, configMapName) ==
    \/ \E i \in 1..Len(spec.volumes) :
          \/ spec.volumes[i].configMap = configMapName
          \/ /\ spec.volumes[i].projected # None
             /\ \E j \in 1..Len(Deref(spec.volumes[i].projected).sources) :
                   Deref(spec.volumes[i].projected).sources[j].configMap = configMapName
    \/ \E i \in 1..Len(spec.containers) :
          \/ \E j \in 1..Len(spec.containers[i].envFrom) :
                spec.containers[i].envFrom[j].configMapRef = configMapName
          \/ \E j \in 1..Len(spec.containers[i].env) :
                /\ spec.containers[i].env[j].valueFrom # None
                /\ Deref(spec.containers[i].env[j].valueFrom).configMapKeyRef = configMapName

\* podUsesConfigMap: the pod spec references the ConfigMap by name.
podUsesConfigMap(spec, configMapName) ==
    \/ \E i \in 1..Len(spec.volumes) :
          \/ spec.volumes[i].configMap = configMapName
          \/ /\ spec.volumes[i].projected # None
             /\ \E j \in 1..Len(Deref(spec.volumes[i].projected).sources) :
                   Deref(spec.volumes[i].projected).sources[j].configMap = configMapName
    \/ \E i \in 1..Len(spec.containers) :
          \/ \E j \in 1..Len(spec.containers[i].envFrom) :
                spec.containers[i].envFrom[j].configMapRef = configMapName
          \/ \E j \in 1..Len(spec.containers[i].env) :
                /\ spec.containers[i].env[j].valueFrom # None
                /\ Deref(spec.containers[i].env[j].valueFrom).configMapKeyRef = configMapName
    \/ \E i \in 1..Len(spec.initContainers) :
          \/ \E j \in 1..Len(spec.initContainers[i].envFrom) :
                spec.initContainers[i].envFrom[j].configMapRef = configMapName
          \/ \E j \in 1..Len(spec.initContainers[i].env) :
                /\ spec.initContainers[i].env[j].valueFrom # None
                /\ Deref(spec.initContainers[i].env[j].valueFrom).configMapKeyRef = configMapName

(***************************************************************************)
(* AutoApplyConfig objects and the effective exclusion policy.             *)
(***************************************************************************)
\* CompileAll giving up at the first pattern that does not compile.
RECURSIVE CompileAll_stopAtInvalid(_)
CompileAll_stopAtInvalid(patterns) ==
    IF patterns = <<>> THEN <<>>
    ELSE IF ~Compile(Head(patterns)).ok THEN <<>>
    ELSE <<Compile(Head(patterns)).prog>> \o CompileAll_stopAtInvalid(Tail(patterns))

\* The patterns of one object that compile, in order.
RECURSIVE CompileAll(_)
CompileAll(patterns) ==
    IF patterns = <<>> THEN <<>>
    ELSE (IF Compile(Head(patterns)).ok THEN <<Compile(Head(patterns)).prog>> ELSE <<>>)
         \o CompileAll(Tail(patterns))

\* loadExclusionConfigItems with each object replacing what came before it.
loadExclusionConfigItems_lastOnly(items) ==
    IF items = <<>> THEN [podPatterns |-> <<>>, namespaces |-> <<>>]
    ELSE [podPatterns |-> CompileAll(items[Len(items)].excludePods),
          namespaces |-> items[Len(items)].excludeNamespaces]

\* loadExclusionConfig: listErr is the outcome of the List call.
RECURSIVE loadExclusionConfigItems(_)
loadExclusionConfigItems(items) ==
    IF items = <<>> THEN [podPatterns |-> <<>>, namespaces |-> <<>>]
    ELSE LET rest == loadExclusionConfigItems(Tail(items))
         IN  [podPatterns |-> CompileAll(Head(items).excludePods) \o rest.podPatterns,
              namespaces |-> Head(items).excludeNamespaces \o rest.namespaces]

loadExclusionConfig(items, listErr) ==
    IF listErr THEN [podPatterns |-> <<>>, namespaces |-> <<>>]
    ELSE loadExclusionConfigItems(items)

\* The unsafe-mode flag of the effective policy: set by any object.
loadYoloMode(items, listErr) ==
    ~listErr /\ \E i \in 1..Len(items) : items[i].yoloMode

AutoApplyConfig(pods, nss, yolo) ==
    [excludePods |-> pods, excludeNamespaces |-> nss, yoloMode |-> yolo]

\* The sets of AutoApplyConfig objects a cluster of the model may hold.
ConfigChoices ==
    { <<>>,
      <<AutoApplyConfig(<< <<"^", "x">>, <<"^", "k">> >>, <<"ns2">>, FALSE)>>,
      <<AutoApplyConfig(<< <<"(", "w">>, <<"b", "$">> >>, <<>>, FALSE),
        AutoApplyConfig(<<>>, <<"ns2">>, TRUE)>>,
      <<AutoApplyConfig(<< <<"k", ".*">> >>, <<"ns1">>, FALSE)>> }

(***************************************************************************)
(* PodDisruptionBudgets.                                                   *)
(***************************************************************************)
IntVal(n) == [type |-> "Int", intVal |-> n, percent |-> FALSE]

\* A string value: "n%" when percent, else a string that is no percentage.
StrVal(n, isPercent) == [type |-> "String", intVal |-> n, percent |-> isPercent]

\* GetScaledValueFromIntOrPercent rounding down.
GetScaledValueFromIntOrPercent_roundDown(val, total) ==
    IF val.type = "Int" THEN val.intVal
    ELSE IF val.percent THEN (val.intVal * total) \div 100
    ELSE 0

\* intstr.GetScaledValueFromIntOrPercent with roundUp, the error dropped.
GetScaledValueFromIntOrPercent(val, total) ==
    IF val.type = "Int" THEN val.intVal
    ELSE IF val.percent THEN (val.intVal * total + 99) \div 100
    ELSE 0

\* getIntOrPercentValue
getIntOrPercentValue(val, total) ==
    IF val.type = "Int" THEN val.intVal
    ELSE GetScaledValueFromIntOrPercent(val, total)

\* labels.Selector.Matches for a selector built from matchLabels.
SelectorMatches(selector, podLabels) == selector.matchLabels \subseteq podLabels

\* pdbAllows denying also when currentHealthy - 1 equals minAvailable.
pdbAllows_atBoundary(pdb, podLabels) ==
    IF pdb.selector = None THEN TRUE
    ELSE IF ~SelectorMatches(Deref(pdb.selector), podLabels) THEN TRUE
    ELSE IF pdb.disruptionsAllowed <= 0 THEN FALSE
    ELSE IF pdb.minAvailable # None
            /\ pdb.currentHealthy - 1
                 <= getIntOrPercentValue(Deref(pdb.minAvailable), pdb.expectedPods)
         THEN FALSE
    ELSE TRUE

\* pdbAllows denying only below zero allowed disruptions.
pdbAllows_belowZero(pdb, podLabels) ==
    IF pdb.selector = None THEN TRUE
    ELSE IF ~SelectorMatches(Deref(pdb.selector), podLabels) THEN TRUE
    ELSE IF pdb.disruptionsAllowed < 0 THEN FALSE
    ELSE IF pdb.minAvailable # None
            /\ pdb.currentHealthy - 1
                 < getIntOrPercentValue(Deref(pdb.minAvailable), pdb.expectedPods)
         THEN FALSE
    ELSE TRUE

\* One iteration of the loop of canDeletePod: TRUE when pdb lets the loop go on.
pdbAllows(pdb, podLabels) ==
    IF pdb.selector = None THEN TRUE
    ELSE IF ~SelectorMatches(Deref(pdb.selector), podLabels) THEN TRUE
    ELSE IF pdb.disruptionsAllowed <= 0 THEN FALSE
    ELSE IF pdb.minAvailable # None
            /\ pdb.currentHealthy - 1
                 < getIntOrPercentValue(Deref(pdb.minAvailable), pdb.expectedPods)
         THEN FALSE
    ELSE TRUE

\* canDeletePod returning what the first budget says.
canDeletePod_firstOnly(podLabels, pdbs) ==
    IF pdbs = <<>> THEN TRUE
    ELSE pdbAllows(Head(pdbs), podLabels)

\* canDeletePod: the loop over the budgets, returning false at the first denial.
RECURSIVE canDeletePod(_, _)
canDeletePod(podLabels, pdbs) ==
    IF pdbs = <<>> THEN TRUE
    ELSE IF ~pdbAllows(Head(pdbs), podLabels) THEN FALSE
    ELSE canDeletePod(podLabels, Tail(pdbs))

PDB(sel, allowed, minAvail, healthy, expected) ==
    [selector |-> sel, disruptionsAllowed |-> allowed, minAvailable |-> minAvail,
     currentHealthy |-> healthy, expectedPods |-> expected]

Selector(ls) == Some([matchLabels |-> ls])

\* The budgets of namespace ns1 a cluster of the model may hold.
PdbChoices ==
    { <<>>,
      <<PDB(Selector({"app=a"}), 0, Some(IntVal(0)), 3, 3)>>,
      <<PDB(Selector({"app=b"}), 1, Some(IntVal(1)), 1, 2),
        PDB(None, 0, None, 0, 0)>>,
      <<PDB(Selector({"tier=x"}), 1, Some(StrVal(50, TRUE)), 2, 2),
        PDB(Selector({}), 2, None, 4, 4),
        PDB(Selector({"app=a", "tier=x"}), 0, None, 2, 2)>>,
      <<PDB(Selector({"app=a"}), 1, Some(StrVal(50, TRUE)), 2, 3)>> }

(***************************************************************************)
(* Health of the replacements.                                             *)
(***************************************************************************)
\* isPodReady without the Ready condition.
isPodReady_phaseOnly(pod) == pod.phase = "Running"

\* isPodReady
isPodReady(pod) == pod.phase = "Running" /\ pod.ready

\* checkOwnerPodsHealthy looking for a ready pod also when there is no owner.
checkOwnerPodsHealthy_noOwnerCheck(oldPod, podState) ==
    \E p \in PodIds :
        /\ podState[p].exists
        /\ PodTable[p].ns = PodTable[oldPod].ns
        /\ PodTable[p].owner = PodTable[oldPod].owner
        /\ isPodReady(podState[p])

\* checkOwnerPodsHealthy, for a List call that succeeded: podState is the
\* state of the pods the call returns.
checkOwnerPodsHealthy(oldPod, podState) ==
    IF PodTable[oldPod].owner = Nil THEN TRUE
    ELSE \E p \in PodIds :
            /\ podState[p].exists
            /\ PodTable[p].ns = PodTable[oldPod].ns
            /\ PodTable[p].owner = PodTable[oldPod].owner
            /\ isPodReady(podState[p])

(***************************************************************************)
(* State.                                                                  *)
(***************************************************************************)
\* The identities of the ConfigMaps of the cluster (req.NamespacedName).
Keys == {[namespace |-> "ns1", name |-> "cm"]}

\* The workers of the controller; the first maxConcurrentReconciles run.
Workers == {1, 2}

VARIABLES
    configMaps,               \* cluster: key -> [exists, resourceVersion]
    lastResourceVersion,      \* cluster: the resourceVersion given out last
    configs,                  \* cluster: the AutoApplyConfig objects
    pdbObjects,               \* cluster: namespace -> PodDisruptionBudgets
    pods,                     \* cluster: pod -> [exists, phase, ready, deleting, uid]
    configMapVersions,        \* ConfigMapReconciler.configMapVersions (sync.Map)
    maxConcurrentReconciles,  \* the number of workers the controller runs
    task,                     \* worker -> position and locals of its Reconcile
    observed                  \* key -> what the last observation of it was taken for,
                              \*        or Aborted when its campaign was aborted

vars == <<configMaps, lastResourceVersion, configs, pdbObjects, pods,
          configMapVersions, maxConcurrentReconciles, task, observed>>

cluster == <<configMaps, lastResourceVersion, configs, pdbObjects, pods>>

\* req.String()
ReqString(req) == <<req.namespace, req.name>>

\* A worker that runs no Reconcile.
IdleTask ==
    [pc |-> "idle",
     req |-> [namespace |-> "", name |-> ""],
     resourceVersion |-> 0,        \* configMap.ResourceVersion
     lastVersion |-> 0,
     seen |-> FALSE,
     getErr |-> "",                \* the error of r.Get: none, NotFound or Other
     outcome |-> "",               \* FirstSeen, Unchanged, Changed or NotFound
     excludePatterns |-> <<>>,
     excludeNamespaces |-> <<>>,
     yoloMode |-> FALSE,
     podsToRestart |-> <<>>,       \* the candidates: [id, uid] of each pod
     pdbs |-> <<>>,
     firstBatch |-> <<>>,
     secondBatch |-> <<>>,
     restartedPods |-> <<>>,       \* the pods of the first batch that were deleted
     i |-> 0,                      \* restartBatch: the pods already handled
     polls |-> 0,                  \* waitForPodsHealthy: passes that failed
     j |-> 0,                      \* waitForPodsHealthy: pods checked in this pass
     allHealthy |-> TRUE,          \* waitForPodsHealthy: allHealthy of this pass
     pollErr |-> FALSE,            \* waitForPodsHealthy: a List call of this pass failed
     deleteCalls |-> {},           \* the pods a Delete call was issued for
     ctxDone |-> FALSE,            \* ctx was cancelled during the wait or the polling
     campaign |-> "None",          \* None, Running, Done or Aborted
     rollErr |-> FALSE,            \* rollingRestart returned an error
     err |-> FALSE]                \* Reconcile returned an error

Init ==
    /\ configMaps = [k \in Keys |-> [exists |-> TRUE, resourceVersion |-> 1]]
    /\ lastResourceVersion = 1
    /\ configs \in ConfigChoices
    /\ \E c \in PdbChoices : pdbObjects = [ns \in Namespaces |-> IF ns = "ns1" THEN c ELSE <<>>]
    /\ pods = InitPods
    /\ configMapVersions = <<>>
    /\ maxConcurrentReconciles = 1
    /\ task = [t \in Workers |-> IdleTask]
    /\ observed = [k \in Keys |-> ""]

(***************************************************************************)
(* The environment: the cluster changes under the controller.              *)
(***************************************************************************)
UpdateConfigMap(k) ==
    /\ configMaps[k].exists
    /\ lastResourceVersion < MaxVersion
    /\ lastResourceVersion' = lastResourceVersion + 1
    /\ configMaps' = [configMaps EXCEPT ![k].resourceVersion = lastResourceVersion + 1]
    /\ UNCHANGED <<configs, pdbObjects, pods, configMapVersions, maxConcurrentReconciles, task, observed>>

DeleteConfigMap(k) ==
    /\ configMaps[k].exists
    /\ configMaps' = [configMaps EXCEPT ![k].exists = FALSE]
    /\ UNCHANGED <<lastResourceVersion, configs, pdbObjects, pods, configMapVersions,
                   maxConcurrentReconciles, task, observed>>

CreateConfigMap(k) ==
    /\ ~configMaps[k].exists
    /\ lastResourceVersion < MaxVersion
    /\ lastResourceVersion' = lastResourceVersion + 1
    /\ configMaps' = [configMaps EXCEPT ![k] = [exists |-> TRUE,
                                                resourceVersion |-> lastResourceVersion + 1]]
    /\ UNCHANGED <<configs, pdbObjects, pods, configMapVersions, maxConcurrentReconciles, task, observed>>

\* A pod that was deleted finishes terminating: its object is gone, for good
\* when it has no controller owner (or its owner has given up).
PodTerminated(p) ==
    /\ pods[p].exists
    /\ pods[p].deleting
    /\ PodTable[p].owner = Nil \/ pods[p].uid >= MaxInc
    /\ pods' = [pods EXCEPT ![p].exists = FALSE]
    /\ UNCHANGED <<configMaps, lastResourceVersion, configs, pdbObjects, configMapVersions,
                   maxConcurrentReconciles, task, observed>>

\* A pod that was deleted finishes terminating and its controller owner
\* creates the replacement, a new pod of the same name.
PodReplaced(p) ==
    /\ pods[p].exists
    /\ pods[p].deleting
    /\ PodTable[p].owner # Nil
    /\ pods[p].uid < MaxInc
    /\ pods' = [pods EXCEPT ![p] = [exists |-> TRUE, phase |-> "Pending", ready |-> FALSE,
                                    deleting |-> FALSE, uid |-> pods[p].uid + 1]]
    /\ UNCHANGED <<configMaps, lastResourceVersion, configs, pdbObjects, configMapVersions,
                   maxConcurrentReconciles, task, observed>>

\* A replacement starts and passes its readiness probe.
PodBecomesReady(p) ==
    /\ pods[p].exists
    /\ ~pods[p].deleting
    /\ pods[p].phase = "Pending"
    /\ pods' = [pods EXCEPT ![p].phase = "Running", ![p].ready = TRUE]
    /\ UNCHANGED <<configMaps, lastResourceVersion, configs, pdbObjects, configMapVersions,
                   maxConcurrentReconciles, task, observed>>

\* The controller process restarts: every Reconcile in progress is lost, and
\* so is the version store, which lives in memory only.
ProcessRestart ==
    /\ \/ \E t \in Workers : task[t].pc # "idle"
       \/ configMapVersions # <<>>
    /\ configMapVersions' = <<>>
    /\ task' = [t \in Workers |-> IdleTask]
    /\ observed' = [k \in Keys |-> ""]
    /\ UNCHANGED <<cluster, maxConcurrentReconciles>>

(***************************************************************************)
(* Reconcile, step by step.                                                *)
(***************************************************************************)
\* The store with key set to value (sync.Map.Store).
MapStore(m, key, value) ==
    [k \in DOMAIN m \cup {key} |-> IF k = key THEN value ELSE m[k]]

\* The store without key (sync.Map.Delete).
MapDelete(m, key) == [k \in DOMAIN m \ {key} |-> m[k]]

\* A worker takes a request from the queue.  The queue hands a key to one
\* worker at a time.
Start(t, k) ==
    /\ task[t].pc = "idle"
    /\ t <= maxConcurrentReconciles
    /\ \A u \in Workers \ {t} : task[u].pc # "idle" => task[u].req # k
    /\ task' = [task EXCEPT ![t] = [IdleTask EXCEPT !.pc = "get", !.req = k]]
    /\ UNCHANGED <<cluster, configMapVersions, maxConcurrentReconciles, observed>>

\* r.Get(ctx, req.NamespacedName, &configMap)
Get(t) ==
    /\ task[t].pc = "get"
    /\ \/ /\ configMaps[task[t].req].exists
          /\ task' = [task EXCEPT ![t].pc = "load",
                                  ![t].resourceVersion = configMaps[task[t].req].resourceVersion]
       \/ /\ ~configMaps[task[t].req].exists
          /\ task' = [task EXCEPT ![t].pc = "cleanup", ![t].getErr = "NotFound"]
       \/ task' = [task EXCEPT ![t].pc = "cleanup", ![t].getErr = "Other"]
    /\ UNCHANGED <<cluster, configMapVersions, maxConcurrentReconciles, observed>>

\* Cleanup without the Delete of the entry.
Cleanup_keepEntry(t) ==
    /\ task[t].pc = "cleanup"
    /\ configMapVersions' = configMapVersions
    /\ task' = [task EXCEPT ![t].pc = "done",
                            ![t].outcome = IF task[t].getErr = "NotFound" THEN "NotFound" ELSE "",
                            ![t].err = (task[t].getErr # "NotFound")]
    /\ observed' = [observed EXCEPT ![task[t].req] =
                        IF task[t].getErr = "NotFound" THEN "NotFound" ELSE "Error"]
    /\ UNCHANGED <<cluster, maxConcurrentReconciles>>

\* The error branch of r.Get: the entry is dropped, a NotFound error ignored.
Cleanup(t) ==
    /\ task[t].pc = "cleanup"
    /\ configMapVersions' = MapDelete(configMapVersions, ReqString(task[t].req))
    /\ task' = [task EXCEPT ![t].pc = "done",
                            ![t].outcome = IF task[t].getErr = "NotFound" THEN "NotFound" ELSE "",
                            ![t].err = (task[t].getErr # "NotFound")]
    /\ observed' = [observed EXCEPT ![task[t].req] =
                        IF task[t].getErr = "NotFound" THEN "NotFound" ELSE "Error"]
    /\ UNCHANGED <<cluster, maxConcurrentReconciles>>

\* lastVersion, seen := r.configMapVersions.Load(key)
Load(t) ==
    /\ task[t].pc = "load"
    /\ LET key == ReqString(task[t].req)
       IN  task' = [task EXCEPT ![t].pc = "store",
                                ![t].seen = (key \in DOMAIN configMapVersions),
                                ![t].lastVersion = IF key \in DOMAIN configMapVersions
                                                   THEN configMapVersions[key] ELSE 0]
    /\ UNCHANGED <<cluster, configMapVersions, maxConcurrentReconciles, observed>>

\* Classify without the check of seen.
Classify_noSeen(seen, lastVersion, resourceVersion) ==
    IF lastVersion = resourceVersion THEN "Unchanged" ELSE "Changed"

\* Classify without the comparison of the versions.
Classify_noCompare(seen, lastVersion, resourceVersion) ==
    IF ~seen THEN "FirstSeen" ELSE "Changed"

\* What Reconcile makes of the observation, once the version is stored.
Classify(seen, lastVersion, resourceVersion) ==
    IF ~seen THEN "FirstSeen"
    ELSE IF lastVersion = resourceVersion THEN "Unchanged"
    ELSE "Changed"

\* Store keeping the old version while the restart of a change is under way.
Store_deferred(t) ==
    /\ task[t].pc = "store"
    /\ LET outcome == Classify(task[t].seen, task[t].lastVersion, task[t].resourceVersion)
       IN  /\ configMapVersions' =
                  IF outcome = "Changed" THEN configMapVersions
                  ELSE MapStore(configMapVersions, ReqString(task[t].req),
                                task[t].resourceVersion)
           /\ task' = [task EXCEPT ![t].outcome = outcome,
                                   ![t].pc = IF outcome = "Changed" THEN "config" ELSE "done"]
           /\ observed' = [observed EXCEPT ![task[t].req] = outcome]
    /\ UNCHANGED <<cluster, maxConcurrentReconciles>>

\* r.configMapVersions.Store(key, configMap.ResourceVersion), and the two
\* early returns that follow it.
Store(t) ==
    /\ task[t].pc = "store"
    /\ configMapVersions' =
           MapStore(configMapVersions, ReqString(task[t].req), task[t].resourceVersion)
    /\ LET outcome == Classify(task[t].seen, task[t].lastVersion, task[t].resourceVersion)
       IN  /\ task' = [task EXCEPT ![t].outcome = outcome,
                                   ![t].pc = IF outcome = "Changed" THEN "config" ELSE "done"]
           /\ observed' = [observed EXCEPT ![task[t].req] = outcome]
    /\ UNCHANGED <<cluster, maxConcurrentReconciles>>

\* The namespace of the ConfigMap is excluded.
namespaceExcluded(namespace, excludeNamespaces) ==
    \E i \in 1..Len(excludeNamespaces) : excludeNamespaces[i] = namespace

\* r.loadExclusionConfig(ctx), and the check of the ConfigMap's namespace.
LoadConfig(t) ==
    /\ task[t].pc = "config"
    /\ \E listErr \in BOOLEAN :
          LET cfg == loadExclusionConfig(configs, listErr)
          IN  task' = [task EXCEPT
                  ![t].excludePatterns = cfg.podPatterns,
                  ![t].excludeNamespaces = cfg.namespaces,
                  ![t].yoloMode = loadYoloMode(configs, listErr),
                  ![t].pc = IF namespaceExcluded(task[t].req.namespace, cfg.namespaces)
                            THEN "done" ELSE "find"]
    /\ UNCHANGED <<cluster, configMapVersions, maxConcurrentReconciles, observed>>

\* isCandidate without the skip of completed and failed pods.
isCandidate_noPhase(p, podState, configMapName, excludePatterns) ==
    /\ ~podState[p].deleting
    /\ ~isPodExcluded(PodTable[p].name, excludePatterns)
    /\ podUsesConfigMap(PodTable[p].spec, configMapName)

\* isCandidate without the skip of pods being deleted.
isCandidate_noDeleting(p, podState, configMapName, excludePatterns) ==
    /\ ~(podState[p].phase = "Succeeded" \/ podState[p].phase = "Failed")
    /\ ~isPodExcluded(PodTable[p].name, excludePatterns)
    /\ podUsesConfigMap(PodTable[p].spec, configMapName)

\* The body of the loop of findPodsUsingConfigMap: the pod is a candidate.
isCandidate(p, podState, configMapName, excludePatterns) ==
    /\ ~(podState[p].phase = "Succeeded" \/ podState[p].phase = "Failed")
    /\ ~podState[p].deleting
    /\ ~isPodExcluded(PodTable[p].name, excludePatterns)
    /\ podUsesConfigMap(PodTable[p].spec, configMapName)

\* The pods a List call in a namespace returns, in order.
ListPods(podState, namespace) ==
    LET InNamespace(p) == podState[p].exists /\ PodTable[p].ns = namespace
    IN  SelectSeq(PodOrder, InNamespace)

\* findPodsUsingConfigMap, for a List call that succeeded.
findPodsUsingConfigMap(podState, req, excludePatterns) ==
    LET Candidate(p) == isCandidate(p, podState, req.name, excludePatterns)
        found == SelectSeq(ListPods(podState, req.namespace), Candidate)
    IN  [j \in 1..Len(found) |-> [id |-> found[j], uid |-> podState[found[j]].uid]]

\* podsToRestart := r.findPodsUsingConfigMap(...), and the return when empty.
FindPods(t) ==
    /\ task[t].pc = "find"
    /\ \E listErr \in BOOLEAN :
          LET found == IF listErr THEN <<>>
                       ELSE findPodsUsingConfigMap(pods, task[t].req, task[t].excludePatterns)
          IN  task' = [task EXCEPT ![t].podsToRestart = found,
                                   ![t].pc = IF Len(found) = 0 THEN "done" ELSE "pdbs"]
    /\ UNCHANGED <<cluster, configMapVersions, maxConcurrentReconciles, observed>>

\* LoadPDBs with Reconcile returning the error of the List call.
LoadPDBs_abortOnError(t) ==
    /\ task[t].pc = "pdbs"
    /\ \E listErr \in BOOLEAN :
          task' = [task EXCEPT ![t].pdbs = IF listErr THEN <<>>
                                           ELSE pdbObjects[task[t].req.namespace],
                               ![t].pc = IF listErr THEN "done" ELSE "roll",
                               ![t].err = listErr]
    /\ UNCHANGED <<cluster, configMapVersions, maxConcurrentReconciles, observed>>

\* pdbs, err := r.loadPDBs(ctx, configMap.Namespace): a failure is logged.
LoadPDBs(t) ==
    /\ task[t].pc = "pdbs"
    /\ \E listErr \in BOOLEAN :
          task' = [task EXCEPT ![t].pdbs = IF listErr THEN <<>>
                                           ELSE pdbObjects[task[t].req.namespace],
                               ![t].pc = "roll"]
    /\ UNCHANGED <<cluster, configMapVersions, maxConcurrentReconciles, observed>>

\* midpoint rounding down.
midpoint_roundDown(n) == n \div 2

\* midpoint := (len(pods) + 1) / 2
midpoint(n) == (n + 1) \div 2

firstBatchOf(ps) == SubSeq(ps, 1, midpoint(Len(ps)))

secondBatchOf(ps) == SubSeq(ps, midpoint(Len(ps)) + 1, Len(ps))

\* rollingRestart, up to the call of restartBatch for the first batch.
RollingRestart(t) ==
    /\ task[t].pc = "roll"
    /\ ~task[t].yoloMode
    /\ IF Len(task[t].podsToRestart) = 0
       THEN task' = [task EXCEPT ![t].campaign = "Done", ![t].pc = "done"]
       ELSE task' = [task EXCEPT ![t].firstBatch = firstBatchOf(task[t].podsToRestart),
                                 ![t].secondBatch = secondBatchOf(task[t].podsToRestart),
                                 ![t].campaign = "Running",
                                 ![t].i = 0,
                                 ![t].pc = "batch1"]
    /\ UNCHANGED <<cluster, configMapVersions, maxConcurrentReconciles, observed>>

\* Unsafe mode: every candidate is in the one batch.
YoloRestart(t) ==
    /\ task[t].pc = "roll"
    /\ task[t].yoloMode
    /\ task' = [task EXCEPT ![t].firstBatch = task[t].podsToRestart,
                            ![t].secondBatch = <<>>,
                            ![t].campaign = "Running",
                            ![t].i = 0,
                            ![t].pc = "batch1"]
    /\ UNCHANGED <<cluster, configMapVersions, maxConcurrentReconciles, observed>>

\* The batch restartBatch is working on.
CurrentBatch(t) == IF task[t].pc = "batch1" THEN task[t].firstBatch ELSE task[t].secondBatch

\* The effect of a successful r.Delete(ctx, &pod): the pod of that namespace
\* and name starts terminating.
DeletePod(podState, p) == [podState EXCEPT ![p].deleting = TRUE]

\* RestartBatchStep without the check of the budgets.
RestartBatchStep_noPDB(t) ==
    /\ task[t].pc \in {"batch1", "batch2"}
    /\ task[t].i < Len(CurrentBatch(t))
    /\ LET pod == CurrentBatch(t)[task[t].i + 1]
       IN  \/ /\ pods[pod.id].exists
              /\ pods' = DeletePod(pods, pod.id)
              /\ task' = [task EXCEPT
                     ![t].i = task[t].i + 1,
                     ![t].deleteCalls = task[t].deleteCalls \cup {pod.id},
                     ![t].restartedPods = IF task[t].pc = "batch1"
                                          THEN Append(task[t].restartedPods, pod)
                                          ELSE task[t].restartedPods]
           \/ /\ pods' = pods
              /\ task' = [task EXCEPT
                     ![t].i = task[t].i + 1,
                     ![t].deleteCalls = task[t].deleteCalls \cup {pod.id}]
    /\ UNCHANGED <<configMaps, lastResourceVersion, configs, pdbObjects, configMapVersions,
                   maxConcurrentReconciles, observed>>

\* RestartBatchStep leaving the loop when a Delete call fails.
RestartBatchStep_abortOnError(t) ==
    /\ task[t].pc \in {"batch1", "batch2"}
    /\ task[t].i < Len(CurrentBatch(t))
    /\ LET pod == CurrentBatch(t)[task[t].i + 1]
       IN  IF ~canDeletePod(PodTable[pod.id].labels, task[t].pdbs)
           THEN /\ task' = [task EXCEPT ![t].i = task[t].i + 1]
                /\ pods' = pods
           ELSE \/ /\ pods[pod.id].exists
                   /\ pods' = DeletePod(pods, pod.id)
                   /\ task' = [task EXCEPT
                          ![t].i = task[t].i + 1,
                          ![t].deleteCalls = task[t].deleteCalls \cup {pod.id},
                          ![t].restartedPods = IF task[t].pc = "batch1"
                                               THEN Append(task[t].restartedPods, pod)
                                               ELSE task[t].restartedPods]
                \/ /\ pods' = pods
                   /\ task' = [task EXCEPT
                          ![t].i = Len(CurrentBatch(t)),
                          ![t].deleteCalls = task[t].deleteCalls \cup {pod.id}]
    /\ UNCHANGED <<configMaps, lastResourceVersion, configs, pdbObjects, configMapVersions,
                   maxConcurrentReconciles, observed>>

\* RestartBatchStep checking the budgets the namespace holds at the time.
RestartBatchStep_refetch(t) ==
    /\ task[t].pc \in {"batch1", "batch2"}
    /\ task[t].i < Len(CurrentBatch(t))
    /\ LET pod == CurrentBatch(t)[task[t].i + 1]
       IN  IF ~canDeletePod(PodTable[pod.id].labels, pdbObjects[task[t].req.namespace])
           THEN /\ task' = [task EXCEPT ![t].i = task[t].i + 1]
                /\ pods' = pods
           ELSE \/ /\ pods[pod.id].exists
                   /\ pods' = DeletePod(pods, pod.id)
                   /\ task' = [task EXCEPT
                          ![t].i = task[t].i + 1,
                          ![t].deleteCalls = task[t].deleteCalls \cup {pod.id},
                          ![t].restartedPods = IF task[t].pc = "batch1"
                                               THEN Append(task[t].restartedPods, pod)
                                               ELSE task[t].restartedPods]
                \/ /\ pods' = pods
                   /\ task' = [task EXCEPT
                          ![t].i = task[t].i + 1,
                          ![t].deleteCalls = task[t].deleteCalls \cup {pod.id}]
    /\ UNCHANGED <<configMaps, lastResourceVersion, configs, pdbObjects, configMapVersions,
                   maxConcurrentReconciles, observed>>

\* One iteration of the loop of restartBatch.
RestartBatchStep(t) ==
    /\ task[t].pc \in {"batch1", "batch2"}
    /\ task[t].i < Len(CurrentBatch(t))
    /\ LET pod == CurrentBatch(t)[task[t].i + 1]
       IN  IF ~canDeletePod(PodTable[pod.id].labels, task[t].pdbs)
           THEN /\ task' = [task EXCEPT ![t].i = task[t].i + 1]
                /\ pods' = pods
           ELSE \/ /\ pods[pod.id].exists
                   /\ pods' = DeletePod(pods, pod.id)
                   /\ task' = [task EXCEPT
                          ![t].i = task[t].i + 1,
                          ![t].deleteCalls = task[t].deleteCalls \cup {pod.id},
                          ![t].restartedPods = IF task[t].pc = "batch1"
                                               THEN Append(task[t].restartedPods, pod)
                                               ELSE task[t].restartedPods]
                \/ /\ pods' = pods
                   /\ task' = [task EXCEPT
                          ![t].i = task[t].i + 1,
                          ![t].deleteCalls = task[t].deleteCalls \cup {pod.id}]
    /\ UNCHANGED <<configMaps, lastResourceVersion, configs, pdbObjects, configMapVersions,
                   maxConcurrentReconciles, observed>>

\* RestartBatchReturn going from the first batch straight to the polling.
RestartBatchReturn_noWait(t) ==
    /\ task[t].pc \in {"batch1", "batch2"}
    /\ task[t].i = Len(CurrentBatch(t))
    /\ task' = [task EXCEPT
           ![t].pc = IF task[t].pc = "batch1" /\ Len(task[t].restartedPods) # 0
                        /\ Len(task[t].secondBatch) > 0
                     THEN "poll" ELSE "done",
           ![t].campaign = IF task[t].pc = "batch1" /\ Len(task[t].restartedPods) # 0
                              /\ Len(task[t].secondBatch) > 0
                           THEN "Running" ELSE "Done"]
    /\ UNCHANGED <<cluster, configMapVersions, maxConcurrentReconciles, observed>>

\* RestartBatchReturn waiting also when there is no second batch.
RestartBatchReturn_alwaysWait(t) ==
    /\ task[t].pc \in {"batch1", "batch2"}
    /\ task[t].i = Len(CurrentBatch(t))
    /\ task' = [task EXCEPT
           ![t].pc = IF task[t].pc = "batch1" /\ Len(task[t].restartedPods) # 0
                     THEN "wait" ELSE "done",
           ![t].campaign = IF task[t].pc = "batch1" /\ Len(task[t].restartedPods) # 0
                           THEN "Running" ELSE "Done"]
    /\ UNCHANGED <<cluster, configMapVersions, maxConcurrentReconciles, observed>>

\* RestartBatchReturn without the return when no pod was restarted.
RestartBatchReturn_noEmptyCheck(t) ==
    /\ task[t].pc \in {"batch1", "batch2"}
    /\ task[t].i = Len(CurrentBatch(t))
    /\ task' = [task EXCEPT
           ![t].pc = IF task[t].pc = "batch1" /\ Len(task[t].secondBatch) > 0
                     THEN "wait" ELSE "done",
           ![t].campaign = IF task[t].pc = "batch1" /\ Len(task[t].secondBatch) > 0
                           THEN "Running" ELSE "Done"]
    /\ UNCHANGED <<cluster, configMapVersions, maxConcurrentReconciles, observed>>

\* restartBatch returns, and rollingRestart decides how to go on.
RestartBatchReturn(t) ==
    /\ task[t].pc \in {"batch1", "batch2"}
    /\ task[t].i = Len(CurrentBatch(t))
    /\ task' = [task EXCEPT
           ![t].pc = IF task[t].pc = "batch1" /\ Len(task[t].restartedPods) # 0
                        /\ Len(task[t].secondBatch) > 0
                     THEN "wait" ELSE "done",
           ![t].campaign = IF task[t].pc = "batch1" /\ Len(task[t].restartedPods) # 0
                              /\ Len(task[t].secondBatch) > 0
                           THEN "Running" ELSE "Done"]
    /\ UNCHANGED <<cluster, configMapVersions, maxConcurrentReconciles, observed>>

\* time.Sleep(batchWaitDuration), then waitForPodsHealthy sets its deadline.
SettleWait(t) ==
    /\ task[t].pc = "wait"
    /\ task' = [task EXCEPT ![t].pc = "poll", ![t].polls = 0, ![t].j = 0,
                            ![t].allHealthy = TRUE, ![t].pollErr = FALSE]
    /\ UNCHANGED <<cluster, configMapVersions, maxConcurrentReconciles, observed>>

\* One iteration of the inner loop of waitForPodsHealthy: the owner of one
\* deleted pod is checked.  A pass is entered before the deadline only.
PollCheck(t) ==
    /\ task[t].pc = "poll"
    /\ task[t].j < Len(task[t].restartedPods)
    /\ task[t].j > 0 \/ task[t].polls < MaxPolls
    /\ LET oldPod == task[t].restartedPods[task[t].j + 1].id
       IN  \E listErr \in BOOLEAN :
              LET healthy == IF PodTable[oldPod].owner # Nil /\ listErr THEN FALSE
                             ELSE checkOwnerPodsHealthy(oldPod, pods)
              IN  task' = [task EXCEPT
                         ![t].j = task[t].j + 1,
                         ![t].allHealthy = task[t].allHealthy /\ healthy,
                         ![t].pollErr = task[t].pollErr
                                            \/ (PodTable[oldPod].owner # Nil /\ listErr)]
    /\ UNCHANGED <<cluster, configMapVersions, maxConcurrentReconciles, observed>>

\* PollPassEnd with rollingRestart returning once the first batch is healthy.
PollPassEnd_noSecondBatch(t) ==
    /\ task[t].pc = "poll"
    /\ task[t].j = Len(task[t].restartedPods)
    /\ IF task[t].allHealthy
       THEN task' = [task EXCEPT ![t].pc = "done", ![t].campaign = "Done"]
       ELSE task' = [task EXCEPT ![t].polls = task[t].polls + 1, ![t].j = 0,
                                 ![t].allHealthy = TRUE, ![t].pollErr = FALSE]
    /\ UNCHANGED <<cluster, configMapVersions, maxConcurrentReconciles, observed>>

\* PollPassEnd with a deadline that never comes nearer.
PollPassEnd_noDeadline(t) ==
    /\ task[t].pc = "poll"
    /\ task[t].j = Len(task[t].restartedPods)
    /\ IF task[t].allHealthy
       THEN task' = [task EXCEPT ![t].pc = "batch2", ![t].i = 0]
       ELSE task' = [task EXCEPT ![t].polls = 0, ![t].j = 0,
                                 ![t].allHealthy = TRUE, ![t].pollErr = FALSE]
    /\ UNCHANGED <<cluster, configMapVersions, maxConcurrentReconciles, observed>>

\* The end of a pass of waitForPodsHealthy: it returns nil when all were
\* healthy, and rollingRestart goes on to the second batch; else it sleeps
\* for pollInterval.
PollPassEnd(t) ==
    /\ task[t].pc = "poll"
    /\ task[t].j = Len(task[t].restartedPods)
    /\ IF task[t].allHealthy
       THEN task' = [task EXCEPT ![t].pc = "batch2", ![t].i = 0]
       ELSE task' = [task EXCEPT ![t].polls = task[t].polls + 1, ![t].j = 0,
                                 ![t].allHealthy = TRUE, ![t].pollErr = FALSE]
    /\ UNCHANGED <<cluster, configMapVersions, maxConcurrentReconciles, observed>>

\* PollTimeout with the error of waitForPodsHealthy ignored.
PollTimeout_goOn(t) ==
    /\ task[t].pc = "poll"
    /\ task[t].j = 0
    /\ task[t].polls >= 1
    /\ task' = [task EXCEPT ![t].pc = "batch2", ![t].i = 0]
    /\ UNCHANGED <<cluster, configMapVersions, maxConcurrentReconciles, observed>>

\* PollTimeout putting the old version back into the store, so that the
\* next observation of the source is a change again.
PollTimeout_retry(t) ==
    /\ task[t].pc = "poll"
    /\ task[t].j = 0
    /\ task[t].polls >= 1
    /\ task' = [task EXCEPT ![t].pc = "done", ![t].campaign = "Aborted", ![t].rollErr = TRUE]
    /\ configMapVersions' =
           MapStore(configMapVersions, ReqString(task[t].req), task[t].lastVersion)
    /\ observed' = [observed EXCEPT ![task[t].req] = "Aborted"]
    /\ UNCHANGED <<cluster, maxConcurrentReconciles>>

\* The deadline has passed when the next pass is due: waitForPodsHealthy and
\* rollingRestart return an error, which Reconcile logs.
PollTimeout(t) ==
    /\ task[t].pc = "poll"
    /\ task[t].j = 0
    /\ task[t].polls >= 1
    /\ task' = [task EXCEPT ![t].pc = "done", ![t].campaign = "Aborted", ![t].rollErr = TRUE]
    /\ observed' = [observed EXCEPT ![task[t].req] = "Aborted"]
    /\ UNCHANGED <<cluster, configMapVersions, maxConcurrentReconciles>>

\* Reconcile returns; the worker is free again.
Return(t) ==
    /\ task[t].pc = "done"
    /\ task' = [task EXCEPT ![t] = IdleTask]
    /\ UNCHANGED <<cluster, configMapVersions, maxConcurrentReconciles, observed>>

Next ==
    \/ \E k \in Keys : UpdateConfigMap(k)
    \/ \E k \in Keys : DeleteConfigMap(k)
    \/ \E k \in Keys : CreateConfigMap(k)
    \/ \E p \in PodIds : PodTerminated(p)
    \/ \E p \in PodIds : PodReplaced(p)
    \/ \E p \in PodIds : PodBecomesReady(p)
    \/ ProcessRestart
    \/ \E t \in Workers, k \in Keys : Start(t, k)
    \/ \E t \in Workers : Get(t)
    \/ \E t \in Workers : Cleanup(t)
    \/ \E t \in Workers : Load(t)
    \/ \E t \in Workers : Store(t)
    \/ \E t \in Workers : LoadConfig(t)
    \/ \E t \in Workers : FindPods(t)
    \/ \E t \in Workers : LoadPDBs(t)
    \/ \E t \in Workers : RollingRestart(t)
    \/ \E t \in Workers : YoloRestart(t)
    \/ \E t \in Workers : RestartBatchStep(t)
    \/ \E t \in Workers : RestartBatchReturn(t)
    \/ \E t \in Workers : SettleWait(t)
    \/ \E t \in Workers : PollCheck(t)
    \/ \E t \in Workers : PollPassEnd(t)
    \/ \E t \in Workers : PollTimeout(t)
    \/ \E t \in Workers : Return(t)

Spec == Init /\ [][Next]_vars

(***************************************************************************)
(* The split of the candidates, on its own: rollingRestart is entered with *)
(* any list of up to MaxCandidates distinct pods.                          *)
(***************************************************************************)
\* Longest list of candidates handed to rollingRestart.
MaxCandidates == 5

CandidateLists ==
    LET lists == UNION {[1..n -> {"p1", "p2", "p3", "p5", "p6", "q1"}] : n \in 0..MaxCandidates}
        distinct(l) == \A a, b \in DOMAIN l : l[a] = l[b] => a = b
    IN  {[j \in DOMAIN l |-> [id |-> l[j], uid |-> 0]] : l \in {x \in lists : distinct(x)}}

InitSplit ==
    /\ configMaps = [k \in Keys |-> [exists |-> TRUE, resourceVersion |-> 2]]
    /\ lastResourceVersion = 2
    /\ configs = <<>>
    /\ pdbObjects = [ns \in Namespaces |-> <<>>]
    /\ pods = InitPods
    /\ configMapVersions = [key \in {ReqString(k) : k \in Keys} |-> 2]
    /\ maxConcurrentReconciles = 1
    /\ observed = [k \in Keys |-> "Changed"]
    /\ \E ps \in CandidateLists, k \in Keys :
          task = [t \in Workers |->
                     IF t = 1
                     THEN [IdleTask EXCEPT !.pc = "roll", !.req = k, !.resourceVersion = 2,
                                           !.lastVersion = 1, !.seen = TRUE,
                                           !.outcome = "Changed", !.podsToRestart = ps]
                     ELSE IdleTask]

NextSplit == \E t \in Workers : RollingRestart(t)

SpecSplit == InitSplit /\ [][NextSplit]_vars

(***************************************************************************)
(* Progress of a campaign in safe mode.  The cluster has no budgets and   *)
(* no unsafe-mode flag; no Delete call and no List call of the polling    *)
(* fails; a running Reconcile goes on, owners replace their deleted pods   *)
(* and replacements become ready; the deadline of the polling passes      *)
(* after MaxPolls passes that found a pod unhealthy.                      *)
(***************************************************************************)
InitLive ==
    /\ Init
    /\ \A ns \in Namespaces : pdbObjects[ns] = <<>>
    /\ \A j \in 1..Len(configs) : ~configs[j].yoloMode

\* The steps of Reconcile that the worker takes.
WorkerLive(t) ==
    \/ Get(t)
    \/ Cleanup(t)
    \/ Load(t)
    \/ Store(t)
    \/ LoadConfig(t)
    \/ FindPods(t)
    \/ LoadPDBs(t)
    \/ RollingRestart(t)
    \/ RestartBatchStep(t) /\ pods' # pods
    \/ RestartBatchReturn(t)
    \/ SettleWait(t)
    \/ PollCheck(t) /\ ~task'[t].pollErr
    \/ PollPassEnd(t)
    \/ PollTimeout(t) /\ task[t].polls >= MaxPolls
    \/ Return(t)

NextLive ==
    \/ \E k \in Keys : UpdateConfigMap(k)
    \/ \E p \in PodIds : PodTerminated(p)
    \/ \E p \in PodIds : PodReplaced(p)
    \/ \E p \in PodIds : PodBecomesReady(p)
    \/ \E t \in Workers, k \in Keys : Start(t, k)
    \/ \E t \in Workers : WorkerLive(t)

SpecLive ==
    /\ InitLive
    /\ [][NextLive]_vars
    /\ \A t \in Workers : WF_vars(WorkerLive(t))
    /\ \A p \in PodIds : WF_vars(PodReplaced(p))
    /\ \A p \in PodIds : WF_vars(PodBecomesReady(p))

(***************************************************************************)
(* The search for the candidates, on its own: Reconcile has classified a  *)
(* change, and the pods of the namespace are in any state.                *)
(***************************************************************************)
\* The states a pod may be found in.
FoundPodStates ==
    { [exists |-> FALSE, phase |-> "Running", ready |-> FALSE, deleting |-> FALSE, uid |-> 0],
      [exists |-> TRUE, phase |-> "Running", ready |-> TRUE, deleting |-> FALSE, uid |-> 0],
      [exists |-> TRUE, phase |-> "Running", ready |-> TRUE, deleting |-> TRUE, uid |-> 0],
      [exists |-> TRUE, phase |-> "Running", ready |-> FALSE, deleting |-> FALSE, uid |-> 0],
      [exists |-> TRUE, phase |-> "Pending", ready |-> FALSE, deleting |-> FALSE, uid |-> 0],
      [exists |-> TRUE, phase |-> "Succeeded", ready |-> FALSE, deleting |-> FALSE, uid |-> 0],
      [exists |-> TRUE, phase |-> "Failed", ready |-> FALSE, deleting |-> FALSE, uid |-> 0] }

\* A worker that has classified a change of k and is at position pc.
ChangedTask(k, pc) ==
    [IdleTask EXCEPT !.pc = pc, !.req = k, !.resourceVersion = 2, !.lastVersion = 1,
                     !.seen = TRUE, !.outcome = "Changed"]

InitFind ==
    /\ configMaps = [k \in Keys |-> [exists |-> TRUE, resourceVersion |-> 2]]
    /\ lastResourceVersion = 2
    /\ configs \in ConfigChoices
    /\ pdbObjects = [ns \in Namespaces |-> <<>>]
    /\ pods \in { [p \in PodIds |-> CASE p = "p1" -> s1 [] p = "p2" -> s2 [] p = "p3" -> s3
                                       [] p = "p6" -> s6 [] OTHER -> InitPods[p]] :
                      s1 \in FoundPodStates, s2 \in FoundPodStates,
                      s3 \in FoundPodStates, s6 \in FoundPodStates }
    /\ configMapVersions = [key \in {ReqString(k) : k \in Keys} |-> 2]
    /\ maxConcurrentReconciles = 1
    /\ observed = [k \in Keys |-> "Changed"]
    /\ \E k \in Keys :
          task = [t \in Workers |-> IF t = 1 THEN ChangedTask(k, "config") ELSE IdleTask]

NextFind ==
    \/ \E t \in Workers : LoadConfig(t)
    \/ \E t \in Workers : FindPods(t)

SpecFind == InitFind /\ [][NextFind]_vars

(***************************************************************************)
(* The admission of one pod, on its own: restartBatch is entered with one *)
(* pod and any list of up to MaxBudgets budgets.                          *)
(***************************************************************************)
\* Longest list of budgets handed to restartBatch.
MaxBudgets == 2

\* The budgets of the lists: three pods are expected by each.
BudgetChoices ==
    { PDB(sel, allowed, minAvail, healthy, 3) :
          sel \in {None, Selector({"app=a"}), Selector({"app=b"})},
          allowed \in {0, 1},
          minAvail \in {None, Some(IntVal(2)), Some(StrVal(34, TRUE))},
          healthy \in {2, 3} }

BudgetLists == UNION {[1..n -> BudgetChoices] : n \in 0..MaxBudgets}

InitAdmit ==
    /\ configMaps = [k \in Keys |-> [exists |-> TRUE, resourceVersion |-> 2]]
    /\ lastResourceVersion = 2
    /\ configs = <<>>
    /\ pods = InitPods
    /\ configMapVersions = [key \in {ReqString(k) : k \in Keys} |-> 2]
    /\ maxConcurrentReconciles = 1
    /\ observed = [k \in Keys |-> "Changed"]
    /\ \E bs \in BudgetLists, p \in {"p1", "p3"}, k \in Keys :
          /\ pdbObjects = [ns \in Namespaces |-> IF ns = k.namespace THEN bs ELSE <<>>]
          /\ task = [t \in Workers |->
                        IF t = 1
                        THEN [ChangedTask(k, "batch1") EXCEPT
                                  !.podsToRestart = <<[id |-> p, uid |-> 0]>>,
                                  !.firstBatch = <<[id |-> p, uid |-> 0]>>,
                                  !.pdbs = bs,
                                  !.campaign = "Running"]
                        ELSE IdleTask]

NextAdmit ==
    \/ \E t \in Workers : RestartBatchStep(t)
    \/ \E t \in Workers : RestartBatchReturn(t)

SpecAdmit == InitAdmit /\ [][NextAdmit]_vars

(***************************************************************************)
(* The polling, on its own: the first batch is done, up to MaxRemoved     *)
(* pods of the namespace were deleted, and the pods are in any state that *)
(* the deletion allows.                                                   *)
(***************************************************************************)
\* Highest number of pods deleted in the first batch.
MaxRemoved == 2

\* The states a pod may be in once it was deleted: terminating, gone, or
\* replaced by its owner.
RemovedPodStates ==
    { [exists |-> TRUE, phase |-> "Running", ready |-> TRUE, deleting |-> TRUE, uid |-> 0],
      [exists |-> FALSE, phase |-> "Running", ready |-> TRUE, deleting |-> TRUE, uid |-> 0],
      [exists |-> TRUE, phase |-> "Pending", ready |-> FALSE, deleting |-> FALSE, uid |-> 1],
      [exists |-> TRUE, phase |-> "Running", ready |-> FALSE, deleting |-> FALSE, uid |-> 1],
      [exists |-> TRUE, phase |-> "Running", ready |-> TRUE, deleting |-> FALSE, uid |-> 1] }

\* The lists of pods deleted in the first batch.
RemovedLists ==
    LET lists == UNION {[1..n -> {"p1", "p2", "p3", "p5"}] : n \in 1..MaxRemoved}
        distinct(l) == \A a, b \in DOMAIN l : l[a] = l[b] => a = b
    IN  {[j \in DOMAIN l |-> [id |-> l[j], uid |-> 0]] : l \in {x \in lists : distinct(x)}}

\* The states pod p may be in after the first batch has deleted removed.
PodStatesAfter(removed, p) ==
    IF p \in {removed[j].id : j \in 1..Len(removed)}
    THEN {st \in RemovedPodStates : PodTable[p].owner = Nil => st.uid = 0}
    ELSE IF p \in {"p1", "p2"} THEN FoundPodStates
    ELSE IF p \in {"p5", "q1"} THEN {InitPods[p], [InitPods[p] EXCEPT !.ready = FALSE]}
    ELSE {InitPods[p]}

\* The states of the pods after the first batch has deleted removed.
PodsAfter(removed) ==
    { [p \in PodIds |-> CASE p = "p1" -> s1 [] p = "p2" -> s2 [] p = "p3" -> s3
                           [] p = "p5" -> s5 [] p = "q1" -> t1 [] OTHER -> InitPods[p]] :
          s1 \in PodStatesAfter(removed, "p1"), s2 \in PodStatesAfter(removed, "p2"),
          s3 \in PodStatesAfter(removed, "p3"), s5 \in PodStatesAfter(removed, "p5"),
          t1 \in PodStatesAfter(removed, "q1") }

InitOracle ==
    /\ configMaps = [k \in Keys |-> [exists |-> TRUE, resourceVersion |-> 2]]
    /\ lastResourceVersion = 2
    /\ configs = <<>>
    /\ pdbObjects = [ns \in Namespaces |-> <<>>]
    /\ configMapVersions = [key \in {ReqString(k) : k \in Keys} |-> 2]
    /\ maxConcurrentReconciles = 1
    /\ observed = [k \in Keys |-> "Changed"]
    /\ \E removed \in RemovedLists, k \in Keys :
          /\ pods \in PodsAfter(removed)
          /\ task = [t \in Workers |->
                        IF t = 1
                        THEN [ChangedTask(k, "wait") EXCEPT
                                  !.podsToRestart = Append(removed, [id |-> "p6", uid |-> 0]),
                                  !.firstBatch = removed,
                                  !.secondBatch = <<[id |-> "p6", uid |-> 0]>>,
                                  !.restartedPods = removed,
                                  !.i = Len(removed),
                                  !.deleteCalls = {removed[j].id : j \in 1..Len(removed)},
                                  !.campaign = "Running"]
                        ELSE IdleTask]

NextOracle ==
    \/ \E t \in Workers : SettleWait(t)
    \/ \E t \in Workers : PollCheck(t)
    \/ \E t \in Workers : PollPassEnd(t)
    \/ \E t \in Workers : PollTimeout(t)

SpecOracle == InitOracle /\ [][NextOracle]_vars

(***************************************************************************)
(* Cancellation.  The context of a Reconcile is cancelled when the manager *)
(* shuts down.  time.Sleep and the loops of rollingRestart and             *)
(* waitForPodsHealthy do not look at ctx; the calls to the cluster API get *)
(* it, and may fail or succeed as they may without cancellation.  The      *)
(* cancellation is recorded while the campaign is in its settle wait or    *)
(* in the polling.                                                         *)
(***************************************************************************)
CancelContext(t) ==
    /\ task[t].pc \in {"wait", "poll"}
    /\ ~task[t].ctxDone
    /\ task' = [task EXCEPT ![t].ctxDone = TRUE]
    /\ UNCHANGED <<cluster, configMapVersions, maxConcurrentReconciles, observed>>

NextCancel ==
    \/ Next
    \/ \E t \in Workers : CancelContext(t)

SpecCancel == Init /\ [][NextCancel]_vars

(***************************************************************************)
(* The test of the references, on its own: Reconcile has classified the   *)
(* change of a source of any name in either namespace, no pattern is      *)
(* loaded, and any of the pods exist.                                     *)
(***************************************************************************)
\* The names of the sources: the third is referenced by no pod.
SourceNames == {"cm", "other", "none"}

InitUses ==
    /\ configMaps = [k \in Keys |-> [exists |-> TRUE, resourceVersion |-> 2]]
    /\ lastResourceVersion = 2
    /\ configs = <<>>
    /\ pdbObjects = [ns \in Namespaces |-> <<>>]
    /\ \E present \in SUBSET PodIds :
          pods = [p \in PodIds |-> IF p \in present THEN InitPods[p]
                                   ELSE [InitPods[p] EXCEPT !.exists = FALSE]]
    /\ configMapVersions = [key \in {ReqString(k) : k \in Keys} |-> 2]
    /\ maxConcurrentReconciles = 1
    /\ observed = [k \in Keys |-> "Changed"]
    /\ \E ns \in Namespaces, name \in SourceNames :
          task = [t \in Workers |->
                     IF t = 1 THEN ChangedTask([namespace |-> ns, name |-> name], "find")
                     ELSE IdleTask]

NextUses == \E t \in Workers : FindPods(t)

SpecUses == InitUses /\ [][NextUses]_vars

(***************************************************************************)
(* The loading of the policy, on its own: Reconcile has classified a      *)
(* change and the cluster holds any list of up to MaxObjects               *)
(* AutoApplyConfig objects.                                                *)
(***************************************************************************)
\* Highest number of AutoApplyConfig objects in the cluster.
MaxObjects == 2

\* The objects of the lists.  The pattern with "(" does not compile.
ObjectChoices ==
    { AutoApplyConfig(ps, nss, yolo) :
          ps \in { <<>>,
                   << <<"^", "k">> >>,
                   << <<"(", "w">>, <<"b", "$">> >>,
                   << <<"^", "k">>, <<"(", "w">>, <<"^", "k">> >> },
          nss \in { <<>>, <<"ns2">>, <<"ns2", "ns3">> },
          yolo \in BOOLEAN }

ObjectLists == UNION {[1..n -> ObjectChoices] : n \in 0..MaxObjects}

InitPolicy ==
    /\ configMaps = [k \in Keys |-> [exists |-> TRUE, resourceVersion |-> 2]]
    /\ lastResourceVersion = 2
    /\ configs \in ObjectLists
    /\ pdbObjects = [ns \in Namespaces |-> <<>>]
    /\ pods = InitPods
    /\ configMapVersions = [key \in {ReqString(k) : k \in Keys} |-> 2]
    /\ maxConcurrentReconciles = 1
    /\ observed = [k \in Keys |-> "Changed"]
    /\ \E k \in Keys :
          task = [t \in Workers |-> IF t = 1 THEN ChangedTask(k, "config") ELSE IdleTask]

NextPolicy == \E t \in Workers : LoadConfig(t)

SpecPolicy == InitPolicy /\ [][NextPolicy]_vars

(***************************************************************************)
(* Observations of one source by two tasks at once.  Reconcile holds no   *)
(* lock between its Get, its Load and its Store; here nothing outside      *)
(* Reconcile keeps two tasks from running it for the same source.  The     *)
(* campaign of a change, which never touches the store, is left out: a    *)
(* task that has classified a change stays where it is.                   *)
(***************************************************************************)
InitConcurrent ==
    /\ configMaps = [k \in Keys |-> [exists |-> TRUE, resourceVersion |-> 1]]
    /\ lastResourceVersion = 1
    /\ configs = <<>>
    /\ pdbObjects = [ns \in Namespaces |-> <<>>]
    /\ pods = InitPods
    /\ configMapVersions = <<>>
    /\ maxConcurrentReconciles = 2
    /\ task = [t \in Workers |-> IdleTask]
    /\ observed = [k \in Keys |-> ""]

\* A task starts to reconcile the source, whatever the other tasks do.
StartConcurrent(t, k) ==
    /\ task[t].pc = "idle"
    /\ t <= maxConcurrentReconciles
    /\ task' = [task EXCEPT ![t] = [IdleTask EXCEPT !.pc = "get", !.req = k]]
    /\ UNCHANGED <<cluster, configMapVersions, maxConcurrentReconciles, observed>>

NextConcurrent ==
    \/ \E k \in Keys : UpdateConfigMap(k)
    \/ \E t \in Workers, k \in Keys : StartConcurrent(t, k)
    \/ \E t \in Workers : Get(t)
    \/ \E t \in Workers : Cleanup(t)
    \/ \E t \in Workers : Load(t)
    \/ \E t \in Workers : Store(t)
    \/ \E t \in Workers : Return(t)

SpecConcurrent == InitConcurrent /\ [][NextConcurrent]_vars

(***************************************************************************)
(* Budgets that change under the campaign.  The disruption controller      *)
(* rewrites the status of a budget as pods come and go, and operators      *)
(* create, edit and delete budgets; Reconcile lists them once, in          *)
(* loadPDBs.  The cluster holds no AutoApplyConfig object.                 *)
(***************************************************************************)
\* The budgets namespace ns1 may hold at one time.  The first selects the
\* pods p1 and p2 and tolerates one disruption; the second is the first
\* once it is used up; the third tolerates the disruption of p1 and p2 and
\* none of p3.
BudgetStates ==
    { <<PDB(Selector({"app=a"}), 1, Some(IntVal(1)), 2, 2)>>,
      <<PDB(Selector({"app=a"}), 0, Some(IntVal(1)), 1, 2)>>,
      <<PDB(Selector({"app=a"}), 2, None, 2, 2),
        PDB(Selector({"app=b"}), 0, Some(StrVal(100, TRUE)), 1, 1)>> }

\* The budgets of a namespace are replaced by others.
UpdateBudgets(ns) ==
    /\ \E bs \in BudgetStates :
          /\ bs # pdbObjects[ns]
          /\ pdbObjects' = [pdbObjects EXCEPT ![ns] = bs]
    /\ UNCHANGED <<configMaps, lastResourceVersion, configs, pods, configMapVersions,
                   maxConcurrentReconciles, task, observed>>

InitBudgets ==
    /\ configMaps = [k \in Keys |-> [exists |-> TRUE, resourceVersion |-> 1]]
    /\ lastResourceVersion = 1
    /\ configs = <<>>
    /\ \E bs \in BudgetStates :
          pdbObjects = [ns \in Namespaces |-> IF ns = "ns1" THEN bs ELSE <<>>]
    /\ pods = InitPods
    /\ configMapVersions = <<>>
    /\ maxConcurrentReconciles = 1
    /\ task = [t \in Workers |-> IdleTask]
    /\ observed = [k \in Keys |-> ""]

NextBudgets ==
    \/ \E k \in Keys : UpdateConfigMap(k)
    \/ \E p \in PodIds : PodTerminated(p)
    \/ \E p \in PodIds : PodReplaced(p)
    \/ \E p \in PodIds : PodBecomesReady(p)
    \/ UpdateBudgets("ns1")
    \/ \E t \in Workers, k \in Keys : Start(t, k)
    \/ \E t \in Workers : Get(t)
    \/ \E t \in Workers : Cleanup(t)
    \/ \E t \in Workers : Load(t)
    \/ \E t \in Workers : Store(t)
    \/ \E t \in Workers : LoadConfig(t)
    \/ \E t \in Workers : FindPods(t)
    \/ \E t \in Workers : LoadPDBs(t)
    \/ \E t \in Workers : RollingRestart(t)
    \/ \E t \in Workers : RestartBatchStep(t)
    \/ \E t \in Workers : RestartBatchReturn(t)
    \/ \E t \in Workers : SettleWait(t)
    \/ \E t \in Workers : PollCheck(t)
    \/ \E t \in Workers : PollPassEnd(t)
    \/ \E t \in Workers : PollTimeout(t)
    \/ \E t \in Workers : Return(t)

SpecBudgets == InitBudgets /\ [][NextBudgets]_vars

(***************************************************************************)
(* The resolution of minAvailable, on its own: restartBatch is entered     *)
(* with the pod p1 and one budget that selects it and allows a disruption, *)
(* with any minAvailable, absolute or a percentage, and any numbers of     *)
(* healthy and of expected pods up to MaxExpected.                         *)
(***************************************************************************)
\* Highest number of pods a budget expects.
MaxExpected == 10

\* The percentages of the budgets.
Percents == {0, 1, 25, 30, 34, 50, 75, 99, 100}

ScaleChoices ==
    { PDB(Selector({"app=a"}), 1, Some(minAvail), healthy, expected) :
          minAvail \in {IntVal(n) : n \in 0..MaxExpected}
                          \cup {StrVal(p, TRUE) : p \in Percents},
          healthy \in 0..MaxExpected,
          expected \in 0..MaxExpected }

InitScale ==
    /\ configMaps = [k \in Keys |-> [exists |-> TRUE, resourceVersion |-> 2]]
    /\ lastResourceVersion = 2
    /\ configs = <<>>
    /\ pods = InitPods
    /\ configMapVersions = [key \in {ReqString(k) : k \in Keys} |-> 2]
    /\ maxConcurrentReconciles = 1
    /\ observed = [k \in Keys |-> "Changed"]
    /\ \E pdb \in ScaleChoices, k \in Keys :
          /\ pdbObjects = [ns \in Namespaces |-> IF ns = k.namespace THEN <<pdb>> ELSE <<>>]
          /\ task = [t \in Workers |->
                        IF t = 1
                        THEN [ChangedTask(k, "batch1") EXCEPT
                                  !.podsToRestart = <<[id |-> "p1", uid |-> 0]>>,
                                  !.firstBatch = <<[id |-> "p1", uid |-> 0]>>,
                                  !.pdbs = <<pdb>>,
                                  !.campaign = "Running"]
                        ELSE IdleTask]

NextScale ==
    \/ \E t \in Workers : RestartBatchStep(t)
    \/ \E t \in Workers : RestartBatchReturn(t)

SpecScale == InitScale /\ [][NextScale]_vars

(***************************************************************************)
(* The targets of a campaign: Reconcile has classified a change, and the   *)
(* pods of the namespace are found running, terminating, completed or     *)
(* failed.                                                                 *)
(***************************************************************************)
\* The states the pods other than p1 are found in.
TargetPodStates ==
    { [exists |-> TRUE, phase |-> "Running", ready |-> TRUE, deleting |-> FALSE, uid |-> 0],
      [exists |-> TRUE, phase |-> "Running", ready |-> TRUE, deleting |-> TRUE, uid |-> 0],
      [exists |-> TRUE, phase |-> "Failed", ready |-> FALSE, deleting |-> FALSE, uid |-> 0] }

InitTargets ==
    /\ configMaps = [k \in Keys |-> [exists |-> TRUE, resourceVersion |-> 2]]
    /\ lastResourceVersion = 2
    /\ configs \in ConfigChoices
    /\ \E c \in PdbChoices : pdbObjects = [ns \in Namespaces |-> IF ns = "ns1" THEN c ELSE <<>>]
    /\ pods \in { [p \in PodIds |-> CASE p = "p1" -> s1 [] p = "p2" -> s2 [] p = "p3" -> s3
                                       [] OTHER -> InitPods[p]] :
                      s1 \in FoundPodStates, s2 \in TargetPodStates, s3 \in TargetPodStates }
    /\ configMapVersions = [key \in {ReqString(k) : k \in Keys} |-> 2]
    /\ maxConcurrentReconciles = 1
    /\ observed = [k \in Keys |-> "Changed"]
    /\ \E k \in Keys :
          task = [t \in Workers |-> IF t = 1 THEN ChangedTask(k, "config") ELSE IdleTask]

NextTargets ==
    \/ \E p \in PodIds : PodTerminated(p)
    \/ \E p \in PodIds : PodReplaced(p)
    \/ \E p \in PodIds : PodBecomesReady(p)
    \/ \E t \in Workers : LoadConfig(t)
    \/ \E t \in Workers : FindPods(t)
    \/ \E t \in Workers : LoadPDBs(t)
    \/ \E t \in Workers : RollingRestart(t)
    \/ \E t \in Workers : YoloRestart(t)
    \/ \E t \in Workers : RestartBatchStep(t)
    \/ \E t \in Workers : RestartBatchReturn(t)
    \/ \E t \in Workers : SettleWait(t)
    \/ \E t \in Workers : PollCheck(t)
    \/ \E t \in Workers : PollPassEnd(t)
    \/ \E t \in Workers : PollTimeout(t)
    \/ \E t \in Workers : Return(t)

SpecTargets == InitTargets /\ [][NextTargets]_vars

(***************************************************************************)
(* Termination.  Reconcile has classified a change.  The process keeps     *)
(* running and every call of the Reconcile returns, with or without an     *)
(* error, so that the worker takes its next step; time advances, so that   *)
(* a pass of the polling is followed by the next or by the deadline.       *)
(* Nothing is assumed of the cluster: pods may never be replaced and never *)
(* become ready.                                                           *)
(***************************************************************************)
InitTerminate ==
    /\ configMaps = [k \in Keys |-> [exists |-> TRUE, resourceVersion |-> 2]]
    /\ lastResourceVersion = 2
    /\ configs \in ConfigChoices
    /\ \E c \in PdbChoices : pdbObjects = [ns \in Namespaces |-> IF ns = "ns1" THEN c ELSE <<>>]
    /\ pods = InitPods
    /\ configMapVersions = [key \in {ReqString(k) : k \in Keys} |-> 2]
    /\ maxConcurrentReconciles = 1
    /\ observed = [k \in Keys |-> "Changed"]
    /\ \E k \in Keys :
          task = [t \in Workers |-> IF t = 1 THEN ChangedTask(k, "config") ELSE IdleTask]

\* The steps of Reconcile after the classification, whatever their outcome.
CampaignStep(t) ==
    \/ LoadConfig(t)
    \/ FindPods(t)
    \/ LoadPDBs(t)
    \/ RollingRestart(t)
    \/ YoloRestart(t)
    \/ RestartBatchStep(t)
    \/ RestartBatchReturn(t)
    \/ SettleWait(t)
    \/ PollCheck(t)
    \/ PollPassEnd(t)
    \/ PollTimeout(t)
    \/ Return(t)

NextTerminate ==
    \/ \E p \in PodIds : PodTerminated(p)
    \/ \E p \in PodIds : PodReplaced(p)
    \/ \E p \in PodIds : PodBecomesReady(p)
    \/ \E t \in Workers : CampaignStep(t)

SpecTerminate ==
    /\ InitTerminate
    /\ [][NextTerminate]_vars
    /\ \A t \in Workers : WF_vars(CampaignStep(t))

(***************************************************************************)
(* Pods removed by others during a campaign.  While the campaign waits     *)
(* between its batches, someone else (an operator, an eviction, a          *)
(* Reconcile for another source) deletes a pod; its owner recreates it     *)
(* under the same name, as a StatefulSet does.                             *)
(* The cluster holds no policy object and no budget, and the campaign      *)
(* finds the pod p3 running, terminating or failed.                        *)
(***************************************************************************)
\* A pod is deleted by someone else than the campaign, while the campaign
\* waits between its batches.
ExternalDelete(p) ==
    /\ \E t \in Workers : task[t].pc \in {"wait", "poll"}
    /\ pods[p].exists
    /\ ~pods[p].deleting
    /\ pods' = DeletePod(pods, p)
    /\ UNCHANGED <<configMaps, lastResourceVersion, configs, pdbObjects, configMapVersions,
                   maxConcurrentReconciles, task, observed>>

\* The pods that others delete: those of the owner o1 in namespace ns1.
RecreatedPods == {"p1", "p2"}

InitRecreate ==
    /\ configMaps = [k \in Keys |-> [exists |-> TRUE, resourceVersion |-> 2]]
    /\ lastResourceVersion = 2
    /\ configs = <<>>
    /\ pdbObjects = [ns \in Namespaces |-> <<>>]
    /\ \E s3 \in TargetPodStates : pods = [InitPods EXCEPT !["p3"] = s3]
    /\ configMapVersions = [key \in {ReqString(k) : k \in Keys} |-> 2]
    /\ maxConcurrentReconciles = 1
    /\ observed = [k \in Keys |-> "Changed"]
    /\ \E k \in Keys :
          task = [t \in Workers |-> IF t = 1 THEN ChangedTask(k, "find") ELSE IdleTask]

NextRecreate ==
    \/ \E p \in RecreatedPods : ExternalDelete(p)
    \/ \E p \in PodIds : PodTerminated(p)
    \/ \E p \in PodIds : PodReplaced(p)
    \/ \E p \in PodIds : PodBecomesReady(p)
    \/ \E t \in Workers : FindPods(t)
    \/ \E t \in Workers : LoadPDBs(t)
    \/ \E t \in Workers : RollingRestart(t)
    \/ \E t \in Workers : RestartBatchStep(t)
    \/ \E t \in Workers : RestartBatchReturn(t)
    \/ \E t \in Workers : SettleWait(t)
    \/ \E t \in Workers : PollCheck(t)
    \/ \E t \in Workers : PollPassEnd(t)
    \/ \E t \in Workers : PollTimeout(t)
    \/ \E t \in Workers : Return(t)

SpecRecreate == InitRecreate /\ [][NextRecreate]_vars

(***************************************************************************)
(* Properties.                                                             *)
(***************************************************************************)
\* The pods of a list of candidates.
Ids(ps) == {ps[j].id : j \in 1..Len(ps)}

\* The worker is between the classification of a change and its return.
InCampaign(t) ==
    task[t].pc \in {"config", "find", "pdbs", "roll", "batch1", "wait", "poll", "batch2"}

\* The unit is excluded by the policy the campaign of t has loaded: its
\* namespace is listed, or its name matches a pattern.
ExcludedByPolicy(t, p) ==
    \/ PodTable[p].ns \in Range(task[t].excludeNamespaces)
    \/ \E re \in Range(task[t].excludePatterns) : MatchString(re, PodTable[p].name)

\* C1: a campaign, safe or unsafe, in either batch, issues no delete call for
\* a unit whose namespace is in the excluded-namespace list of its effective
\* policy or whose name matches one of the policy's exclusion patterns.
C1_NoDeleteOfExcluded ==
    \A t \in Workers : \A p \in task[t].deleteCalls : ~ExcludedByPolicy(t, p)

\* C1 happens: a campaign has issued delete calls and has left alone a unit
\* of the namespace that uses the ConfigMap and matches an exclusion pattern.
C1_Witness ==
    \E t \in Workers : \E p \in PodIds :
        /\ task[t].deleteCalls # {}
        /\ p \notin task[t].deleteCalls
        /\ PodTable[p].ns = task[t].req.namespace
        /\ podUsesConfigMap(PodTable[p].spec, task[t].req.name)
        /\ isCandidate(p, pods, task[t].req.name, <<>>)
        /\ ExcludedByPolicy(t, p)

\* A budget of the snapshot selects the unit and allows no disruption.
MatchesExhaustedBudget(p, pdbs) ==
    \E j \in 1..Len(pdbs) :
        /\ pdbs[j].selector # None
        /\ Deref(pdbs[j].selector).matchLabels \subseteq PodTable[p].labels
        /\ pdbs[j].disruptionsAllowed <= 0

\* C2: a unit that a budget with allowedDisruptions <= 0 selects is denied by
\* canRemove, whatever the minAvailable and currentHealthy of that budget and
\* whatever the other budgets say, and the campaign never deletes it.
C2_ExhaustedBudgetDenies ==
    \A t \in Workers : \A p \in PodIds :
        MatchesExhaustedBudget(p, task[t].pdbs)
            => /\ ~canDeletePod(PodTable[p].labels, task[t].pdbs)
               /\ p \notin task[t].deleteCalls

\* C2 happens: restartBatch has passed over a unit that an exhausted budget
\* selects, while another budget of the snapshot selects it and would allow
\* the disruption, and has called Delete for another unit.
C2_Witness ==
    \E t \in Workers : \E j \in 1..task[t].i :
        LET p == CurrentBatch(t)[j].id
        IN  /\ task[t].pc \in {"batch1", "batch2"}
            /\ MatchesExhaustedBudget(p, task[t].pdbs)
            /\ \E b \in 1..Len(task[t].pdbs) :
                  /\ task[t].pdbs[b].selector # None
                  /\ Deref(task[t].pdbs[b].selector).matchLabels \subseteq PodTable[p].labels
                  /\ task[t].pdbs[b].disruptionsAllowed > 0
            /\ task[t].deleteCalls # {}

\* C3: for n candidates the first batch has ceil(n/2) units, the batches are
\* disjoint and together they are exactly the candidates.
C3_BatchesPartition ==
    \A t \in Workers :
        (task[t].campaign # "None" /\ ~task[t].yoloMode)
            => LET n == Len(task[t].podsToRestart)
                   first == task[t].firstBatch
                   second == task[t].secondBatch
               IN  /\ 2 * Len(first) \in {n, n + 1}
                   /\ Len(first) + Len(second) = n
                   /\ Ids(first) \cap Ids(second) = {}
                   /\ Ids(first) \cup Ids(second) = Ids(task[t].podsToRestart)
                   /\ first \o second = task[t].podsToRestart

\* C3 happens: five candidates have been split into three and two.
C3_Witness ==
    \E t \in Workers :
        /\ task[t].pc = "batch1"
        /\ Len(task[t].podsToRestart) = 5
        /\ Len(task[t].firstBatch) = 3
        /\ Len(task[t].secondBatch) = 2

\* The controller owner of the removed unit, if it has one, has a unit in
\* the namespace that is running and ready.
OwnerSatisfied(p) ==
    \/ PodTable[p].owner = Nil
    \/ \E q \in PodIds :
          /\ pods[q].exists
          /\ PodTable[q].ns = PodTable[p].ns
          /\ PodTable[q].owner = PodTable[p].owner
          /\ pods[q].phase = "Running"
          /\ pods[q].ready

\* The delete calls of the campaign of t against units of its second batch.
SecondBatchCalls(r) == r.deleteCalls \cap Ids(r.secondBatch)

\* C4: in a safe-mode campaign the settle wait starts only when every unit
\* of the first batch has been attempted, polling starts only from the
\* settle wait, and the second batch starts, and gets its delete calls, only
\* from a pass of the poll that has found the owner of every removed unit
\* satisfied.
C4_WaitThenPollThenSecondBatch ==
    [][\A t \in Workers :
          LET a == task[t]
              b == task'[t]
          IN  ~a.yoloMode =>
                /\ (b.pc = "wait" /\ a.pc # "wait")
                      => /\ a.pc = "batch1"
                         /\ a.i = Len(a.firstBatch)
                         /\ Len(a.secondBatch) > 0
                         /\ SecondBatchCalls(a) = {}
                /\ (b.pc = "poll" /\ a.pc # "poll")
                      => a.pc = "wait" /\ SecondBatchCalls(a) = {}
                /\ (a.pc = "poll" /\ b.pc = "poll" /\ b.j = a.j + 1 /\ b.allHealthy)
                      => a.allHealthy /\ OwnerSatisfied(a.restartedPods[b.j].id)
                /\ (b.pc = "batch2" /\ a.pc # "batch2")
                      => /\ a.pc = "poll"
                         /\ a.j = Len(a.restartedPods)
                         /\ a.allHealthy
                         /\ SecondBatchCalls(a) = {}
                /\ SecondBatchCalls(b) # SecondBatchCalls(a) /\ b.pc # "idle"
                      => a.pc = "batch2"]_vars

\* C4 happens: a safe-mode campaign has called Delete for a unit of its
\* second batch.
C4_Witness ==
    \E t \in Workers :
        /\ ~task[t].yoloMode
        /\ task[t].campaign # "None"
        /\ SecondBatchCalls(task[t]) # {}

\* C5: polling ends either in the second batch or, when the deadline has
\* passed without a poll finding every removed unit healthy, in Aborted; an
\* aborted campaign has returned an error to Reconcile and has issued no
\* delete call against a unit of the second batch.
C5_TimeoutAborts ==
    /\ [](\A t \in Workers :
             task[t].campaign = "Aborted"
                 => /\ task[t].pc = "done"
                    /\ task[t].rollErr
                    /\ task[t].polls >= 1
                    /\ SecondBatchCalls(task[t]) = {})
    /\ [][\A t \in Workers :
             LET a == task[t]
                 b == task'[t]
             IN  /\ (a.pc = "poll" /\ b.pc \notin {"poll", "batch2", "idle"})
                       => b.campaign = "Aborted" /\ pods' = pods
                 /\ (a.pc = "poll" /\ a.j = 0 /\ a.polls >= MaxPolls /\ b # a
                       /\ b.pc # "idle")
                       => b.campaign = "Aborted"
                 /\ (b.rollErr /\ ~a.rollErr) => a.pc = "poll"]_vars

\* C5 happens: a campaign was aborted although its budgets admit a unit of
\* its second batch.
C5_Witness ==
    \E t \in Workers :
        /\ task[t].campaign = "Aborted"
        /\ \E j \in 1..Len(task[t].secondBatch) :
              canDeletePod(PodTable[task[t].secondBatch[j].id].labels, task[t].pdbs)

\* C6: a campaign that removed no unit in its first batch never waits, polls
\* or calls Delete for a unit of its second batch, and ends in Done.
C6_NothingRemovedEndsDone ==
    \A t \in Workers :
        (task[t].campaign # "None" /\ Len(task[t].restartedPods) = 0)
            => /\ task[t].pc \notin {"wait", "poll", "batch2"}
               /\ SecondBatchCalls(task[t]) = {}
               /\ task[t].pc = "done" => (task[t].campaign = "Done" /\ ~task[t].rollErr)

\* C6 happens: a campaign has ended with no unit removed, after attempting
\* its whole first batch, and its budgets admit a unit of its second batch.
C6_Witness ==
    \E t \in Workers :
        /\ task[t].pc = "done"
        /\ task[t].campaign = "Done"
        /\ Len(task[t].restartedPods) = 0
        /\ task[t].i = Len(task[t].firstBatch)
        /\ \E j \in 1..Len(task[t].secondBatch) :
              canDeletePod(PodTable[task[t].secondBatch[j].id].labels, task[t].pdbs)

\* C7: the observation of a source that has no entry in the version store
\* only records the version: Reconcile returns with the observed version
\* stored, no campaign and no delete call.
C7_FirstSeenOnlyRecords ==
    /\ [](\A t \in Workers :
             task[t].outcome = "FirstSeen"
                 => /\ task[t].pc = "done"
                    /\ task[t].campaign = "None"
                    /\ task[t].deleteCalls = {})
    /\ [][\A t \in Workers :
             LET a == task[t]
                 b == task'[t]
                 key == ReqString(a.req)
             IN  (a.pc = "store" /\ b.pc \notin {"store", "idle"}
                    /\ key \notin DOMAIN configMapVersions)
                   => /\ b.outcome = "FirstSeen"
                      /\ b.pc = "done"
                      /\ key \in DOMAIN configMapVersions'
                      /\ configMapVersions'[key] = a.resourceVersion
                      /\ pods' = pods]_vars

\* C7 happens: a first observation has returned with the version stored,
\* while a unit of the namespace uses the source and could be restarted.
C7_Witness ==
    \E t \in Workers : \E p \in PodIds :
        /\ task[t].outcome = "FirstSeen"
        /\ task[t].pc = "done"
        /\ ReqString(task[t].req) \in DOMAIN configMapVersions
        /\ configMapVersions[ReqString(task[t].req)] = task[t].resourceVersion
        /\ pods[p].exists
        /\ PodTable[p].ns = task[t].req.namespace
        /\ isCandidate(p, pods, task[t].req.name, <<>>)

\* C8: from the classification of a change on, before any unit is listed or
\* deleted and as long as Reconcile runs, the version store holds the new
\* version, so that an observation carrying that version is Unchanged.
C8_StoredBeforeCampaign ==
    \A t \in Workers :
        task[t].outcome = "Changed"
            => LET key == ReqString(task[t].req)
               IN  /\ key \in DOMAIN configMapVersions
                   /\ configMapVersions[key] = task[t].resourceVersion
                   /\ Classify(TRUE, configMapVersions[key], task[t].resourceVersion)
                          = "Unchanged"

\* C8 happens: a campaign is in its settle wait and the source still has the
\* version the campaign was started for.
C8_Witness ==
    \E t \in Workers :
        /\ task[t].pc = "wait"
        /\ task[t].outcome = "Changed"
        /\ configMaps[task[t].req].exists
        /\ configMaps[task[t].req].resourceVersion = task[t].resourceVersion

\* C9: an observation starts a campaign exactly when the store has a version
\* for the source and the observed version differs from it; an observation
\* of the stored version changes neither the store nor any unit; and only a
\* changed observation ever issues a delete call.
C9_CampaignIffChanged ==
    /\ [](\A t \in Workers :
             (InCampaign(t) \/ task[t].campaign # "None" \/ task[t].deleteCalls # {})
                 => task[t].outcome = "Changed")
    /\ [][\A t \in Workers :
             LET a == task[t]
                 b == task'[t]
                 key == ReqString(a.req)
                 stored == key \in DOMAIN configMapVersions
             IN  (a.pc = "store" /\ b.pc \notin {"store", "idle"})
                   => /\ b.pc = "config"
                         <=> (stored /\ configMapVersions[key] # a.resourceVersion)
                      /\ (stored /\ configMapVersions[key] = a.resourceVersion)
                            => /\ b.outcome = "Unchanged"
                               /\ b.pc = "done"
                               /\ configMapVersions' = configMapVersions
                               /\ pods' = pods]_vars

\* C9 happens: an observation of the stored version has returned, while a
\* unit of the namespace uses the source and could be restarted.
C9_Witness ==
    \E t \in Workers : \E p \in PodIds :
        /\ task[t].outcome = "Unchanged"
        /\ task[t].pc = "done"
        /\ pods[p].exists
        /\ PodTable[p].ns = task[t].req.namespace
        /\ isCandidate(p, pods, task[t].req.name, <<>>)

\* C10: when the source is not found its entry is removed from the store
\* and Reconcile returns without an error, a campaign or a delete call; the
\* next observation of the source, once it exists again, is FirstSeen.
C10_NotFoundClearsEntry ==
    /\ [][\A t \in Workers :
             LET a == task[t]
                 b == task'[t]
                 key == ReqString(a.req)
             IN  (a.pc = "cleanup" /\ a.getErr = "NotFound" /\ b.pc \notin {"cleanup", "idle"})
                   => /\ key \notin DOMAIN configMapVersions'
                      /\ b.pc = "done"
                      /\ ~b.err
                      /\ b.campaign = "None"
                      /\ b.deleteCalls = {}
                      /\ pods' = pods]_vars
    /\ [][\A t \in Workers :
             LET a == task[t]
                 b == task'[t]
             IN  (a.pc = "store" /\ b.pc \notin {"store", "idle"}
                    /\ observed[a.req] = "NotFound")
                   => b.outcome = "FirstSeen" /\ b.pc = "done"]_vars

\* C10 happens: a source that was observed as not found exists again and has
\* been fetched and looked up in the store.
C10_Witness ==
    \E t \in Workers :
        /\ task[t].pc = "store"
        /\ observed[task[t].req] = "NotFound"
        /\ configMaps[task[t].req].exists
        /\ ~task[t].seen

\* The units that are eligible for the campaign of t: they are in the
\* namespace of the source, reference it, are in no terminal phase, are not
\* being deleted and are not excluded by the policy the campaign has loaded.
Eligible(t) ==
    {p \in PodIds :
        /\ pods[p].exists
        /\ PodTable[p].ns = task[t].req.namespace
        /\ podUsesConfigMap(PodTable[p].spec, task[t].req.name)
        /\ pods[p].phase \notin {"Succeeded", "Failed"}
        /\ ~pods[p].deleting
        /\ ~ExcludedByPolicy(t, p)}

\* C11: the candidates that the search hands on are exactly the eligible
\* units of the namespace, each of them once; the batch scheduler gets that
\* list unchanged.
C11_CandidatesAreEligible ==
    [][\A t \in Workers :
          LET a == task[t]
              b == task'[t]
          IN  /\ (a.pc = "find" /\ b.pc \in {"pdbs", "roll"})
                    => /\ Ids(b.podsToRestart) = Eligible(t)
                       /\ Len(b.podsToRestart) = Cardinality(Eligible(t))
                       /\ Eligible(t) # {}
              /\ (a.pc \in {"pdbs", "roll"} /\ b.pc # "idle")
                    => b.podsToRestart = a.podsToRestart]_vars

\* C11 happens: the search has handed on candidates and has left out a unit
\* in a terminal phase, a unit that is being deleted and a unit whose name
\* matches a pattern, all three referencing the source.
C11_Witness ==
    \E t \in Workers : \E p, q, r \in PodIds \ Ids(task[t].podsToRestart) :
        /\ task[t].pc = "pdbs"
        /\ task[t].podsToRestart # <<>>
        /\ \A x \in {p, q, r} :
              /\ pods[x].exists
              /\ PodTable[x].ns = task[t].req.namespace
              /\ podUsesConfigMap(PodTable[x].spec, task[t].req.name)
        /\ pods[p].phase = "Failed" /\ ~pods[p].deleting /\ ~ExcludedByPolicy(t, p)
        /\ pods[q].phase = "Running" /\ pods[q].deleting /\ ~ExcludedByPolicy(t, q)
        /\ pods[r].phase = "Running" /\ ~pods[r].deleting /\ ExcludedByPolicy(t, r)

\* The budget selects a unit with these labels.
BudgetMatches(pdb, podLabels) ==
    pdb.selector # None /\ Deref(pdb.selector).matchLabels \subseteq podLabels

\* The minAvailable of the budget as a number of units: a percentage is
\* taken of the expected units and rounded up.
MinAvailableOf(pdb) ==
    LET val == Deref(pdb.minAvailable)
    IN  IF val.type = "Int" THEN val.intVal
        ELSE CHOOSE n \in 0..(val.intVal * pdb.expectedPods) :
                 /\ 100 * n >= val.intVal * pdb.expectedPods
                 /\ 100 * (n - 1) < val.intVal * pdb.expectedPods

\* The budget, taken alone, denies the removal of a unit it selects.
BudgetDenies(pdb) ==
    \/ pdb.disruptionsAllowed <= 0
    \/ pdb.minAvailable # None /\ pdb.currentHealthy - 1 < MinAvailableOf(pdb)

\* The unit restartBatch has attempted first, if any.
Attempted(t) ==
    IF task[t].pc \in {"batch1", "done"} /\ task[t].i >= 1 /\ task[t].firstBatch # <<>>
    THEN {task[t].firstBatch[1].id} ELSE {}

\* C12: a matching budget with allowedDisruptions > 0 and minAvailable set
\* admits the unit exactly when currentHealthy - 1 >= minAvailable; alone it
\* decides canRemove and the delete call, and among others its denial is
\* final.
C12_MinAvailableBoundary ==
    \A t \in Workers : \A j \in 1..Len(task[t].pdbs) : \A p \in Ids(task[t].firstBatch) :
        LET pdb == task[t].pdbs[j]
            podLabels == PodTable[p].labels
        IN  (BudgetMatches(pdb, podLabels) /\ pdb.disruptionsAllowed > 0
               /\ pdb.minAvailable # None)
              => LET admits == pdb.currentHealthy - 1 >= MinAvailableOf(pdb)
                 IN  /\ pdbAllows(pdb, podLabels) <=> admits
                     /\ canDeletePod(podLabels, <<pdb>>) <=> admits
                     /\ ~admits => ~canDeletePod(podLabels, task[t].pdbs)
                     /\ (~admits /\ p \in Attempted(t)) => p \notin task[t].deleteCalls
                     /\ (admits /\ Len(task[t].pdbs) = 1 /\ p \in Attempted(t))
                           => p \in task[t].deleteCalls

\* C12 happens: the only budget selects the unit, allows a disruption and
\* has currentHealthy - 1 equal to its minAvailable, a percentage, and the
\* unit has got its delete call.
C12_Witness ==
    \E t \in Workers : \E p \in Attempted(t) :
        /\ Len(task[t].pdbs) = 1
        /\ BudgetMatches(task[t].pdbs[1], PodTable[p].labels)
        /\ task[t].pdbs[1].disruptionsAllowed > 0
        /\ task[t].pdbs[1].minAvailable # None
        /\ Deref(task[t].pdbs[1].minAvailable).type = "String"
        /\ task[t].pdbs[1].currentHealthy - 1 = MinAvailableOf(task[t].pdbs[1])
        /\ p \in task[t].deleteCalls

\* The list in the opposite order.
Reverse(seq) == [j \in 1..Len(seq) |-> seq[Len(seq) + 1 - j]]

\* C13: canRemove is true exactly when no budget that selects the unit
\* denies it: true with no budget or no matching budget, false when any
\* matching budget denies, the same for the list in the opposite order and
\* for the list without the budgets that do not select the unit; and the
\* unit gets a delete call exactly when canRemove is true.
C13_DenyWinsAnyOrder ==
    \A t \in Workers : \A p \in Ids(task[t].firstBatch) :
        LET pdbs == task[t].pdbs
            podLabels == PodTable[p].labels
            Selects(pdb) == BudgetMatches(pdb, podLabels)
            admitted == \A j \in 1..Len(pdbs) :
                            BudgetMatches(pdbs[j], podLabels) => ~BudgetDenies(pdbs[j])
        IN  /\ canDeletePod(podLabels, pdbs) <=> admitted
            /\ canDeletePod(podLabels, Reverse(pdbs)) <=> canDeletePod(podLabels, pdbs)
            /\ canDeletePod(podLabels, SelectSeq(pdbs, Selects))
                    <=> canDeletePod(podLabels, pdbs)
            /\ p \in Attempted(t) => (p \in task[t].deleteCalls <=> admitted)

\* C13 happens: of two budgets that select the unit the first admits and the
\* second denies, and the unit was passed over.
C13_Witness ==
    \E t \in Workers : \E p \in Attempted(t) :
        /\ Len(task[t].pdbs) = 2
        /\ \A j \in 1..2 : BudgetMatches(task[t].pdbs[j], PodTable[p].labels)
        /\ ~BudgetDenies(task[t].pdbs[1])
        /\ BudgetDenies(task[t].pdbs[2])
        /\ p \notin task[t].deleteCalls

Admitted(t, p) ==
    \A j \in 1..Len(task[t].pdbs) :
        BudgetMatches(task[t].pdbs[j], PodTable[p].labels) => ~BudgetDenies(task[t].pdbs[j])

DoneBothBatches(t) ==
    LET n == Len(task[t].podsToRestart)
    IN  /\ task[t].pc = "done"
        /\ task[t].campaign = "Done"
        /\ ~task[t].rollErr
        /\ Len(task[t].restartedPods) = (n + 1) \div 2
        /\ Cardinality(Ids(task[t].restartedPods)) = (n + 1) \div 2
        /\ Cardinality(SecondBatchCalls(task[t])) = n \div 2
        /\ Ids(task[t].restartedPods) \cap SecondBatchCalls(task[t]) = {}
        /\ Ids(task[t].restartedPods) \cup SecondBatchCalls(task[t])
               = Ids(task[t].podsToRestart)
        /\ \A j \in 1..n :
              LET old == task[t].podsToRestart[j]
              IN  pods[old.id].deleting \/ pods[old.id].uid > old.uid \/ ~pods[old.id].exists

\* C16: a campaign in safe mode with no budgets and no failing call ends in
\* Done, having removed the first half of its candidates, rounded up, in
\* batch one and the rest in batch two, unless the deadline passes before
\* the replacements are healthy.
C16_SafeCampaignCompletes ==
    \A t \in Workers :
        (task[t].pc = "batch1" /\ task[t].i = 0)
            ~> (DoneBothBatches(t) \/ (task[t].pc = "done" /\ task[t].polls >= MaxPolls))

\* C16 happens: a campaign for three candidates has ended in Done after a
\* pass of the polling that found a replacement not ready.
C16_Witness ==
    \E t \in Workers :
        /\ DoneBothBatches(t)
        /\ Len(task[t].podsToRestart) = 3
        /\ Len(task[t].restartedPods) = 2
        /\ task[t].polls >= 1

\* No unit of the list has a controller owner.
Unowned(ps) == \A j \in 1..Len(ps) : PodTable[ps[j].id].owner = Nil

\* C17: the check of a removed unit with no controller owner leaves the
\* verdict of the pass as it was; when no removed unit has an owner the
\* first pass finds all healthy, whatever the state of the cluster, and the
\* polling ends in the second batch.
C17_UnownedIsSatisfied ==
    /\ [](\A t \in Workers :
             (task[t].pc = "poll" /\ Unowned(task[t].restartedPods))
                 => task[t].allHealthy /\ ~task[t].pollErr /\ task[t].polls = 0)
    /\ [][\A t \in Workers :
             LET a == task[t]
                 b == task'[t]
             IN  /\ (a.pc = "poll" /\ b.pc = "poll" /\ b.j = a.j + 1
                       /\ PodTable[a.restartedPods[b.j].id].owner = Nil)
                       => b.allHealthy = a.allHealthy /\ b.pollErr = a.pollErr
                 /\ (a.pc = "poll" /\ Unowned(a.restartedPods) /\ b.pc \notin {"poll", "idle"})
                       => b.pc = "batch2" /\ b.campaign = "Running" /\ ~b.rollErr]_vars

\* C17 happens: the polling for a removed unit with no owner, which is gone
\* for good, has ended in the second batch at its first pass while no unit
\* of the namespace is ready.
C17_Witness ==
    \E t \in Workers :
        /\ task[t].pc = "batch2"
        /\ task[t].polls = 0
        /\ task[t].restartedPods # <<>>
        /\ Unowned(task[t].restartedPods)
        /\ \A j \in 1..Len(task[t].restartedPods) : ~pods[task[t].restartedPods[j].id].exists
        /\ \A q \in PodIds :
              PodTable[q].ns = task[t].req.namespace
                  => ~(pods[q].exists /\ pods[q].phase = "Running" /\ pods[q].ready)

\* A unit of the namespace with this controller owner is running and ready.
OwnerReady(ns, owner) ==
    \E q \in PodIds :
        /\ pods[q].exists
        /\ PodTable[q].ns = ns
        /\ PodTable[q].owner = owner
        /\ pods[q].phase = "Running"
        /\ pods[q].ready

\* The distinct controller owners of the units of the list.
OwnersOf(ps) ==
    {<<PodTable[ps[j].id].ns, PodTable[ps[j].id].owner>> :
        j \in {i \in 1..Len(ps) : PodTable[ps[i].id].owner # Nil}}

AllOwnersReady(ps) == \A x \in OwnersOf(ps) : OwnerReady(x[1], x[2])

\* C18: while the cluster does not change, the verdict of a pass over the
\* removed units is healthy only if every distinct owner among them has a
\* running and ready unit in the namespace, and, when no List call failed,
\* whenever every one has.
C18_HealthyIffOwnersReady ==
    \A t \in Workers :
        /\ task[t].pc = "poll"
              => LET checked == SubSeq(task[t].restartedPods, 1, task[t].j)
                 IN  /\ task[t].allHealthy => AllOwnersReady(checked)
                     /\ ~task[t].pollErr => (task[t].allHealthy <=> AllOwnersReady(checked))
        /\ task[t].pc = "batch2" => AllOwnersReady(task[t].restartedPods)

\* C18 happens: a pass over two removed units of one owner has found all
\* healthy, the one ready unit of that owner in the namespace standing for
\* both, while another unit of the owner is running and not ready.
C18_Witness ==
    \E t \in Workers : \E q, r \in PodIds :
        /\ task[t].pc = "poll"
        /\ task[t].j = 2
        /\ Len(task[t].restartedPods) = 2
        /\ Cardinality(OwnersOf(task[t].restartedPods)) = 1
        /\ task[t].allHealthy
        /\ \A x \in {q, r} : /\ pods[x].exists
                              /\ PodTable[x].ns = task[t].req.namespace
                              /\ <<PodTable[x].ns, PodTable[x].owner>>
                                     \in OwnersOf(task[t].restartedPods)
                              /\ pods[x].phase = "Running"
        /\ pods[q].ready
        /\ ~pods[r].ready

\* A replacement of a removed unit with the controller owner of old, created
\* after the removal, is running and ready.
ReplacementReady(removed, old) ==
    \E j \in 1..Len(removed) :
        LET r == removed[j]
        IN  /\ PodTable[r.id].ns = PodTable[old.id].ns
            /\ PodTable[r.id].owner = PodTable[old.id].owner
            /\ pods[r.id].exists
            /\ pods[r.id].uid > r.uid
            /\ ~pods[r.id].deleting
            /\ pods[r.id].phase = "Running"
            /\ pods[r.id].ready

\* C19: the second batch is started only when, for every removed unit that
\* has a controller owner, a replacement is ready: a removed unit that is
\* still terminating and a unit that was there before the removal do not
\* open the gate.
C19_GateNeedsReplacement ==
    [][\A t \in Workers :
          (task[t].pc = "poll" /\ task'[t].pc = "batch2")
              => \A j \in 1..Len(task[t].restartedPods) :
                    PodTable[task[t].restartedPods[j].id].owner # Nil
                        => ReplacementReady(task[t].restartedPods,
                                            task[t].restartedPods[j])]_vars

\* The unit was deleted since the campaign listed it: it is terminating,
\* gone, or replaced.
Removed(old) ==
    pods[old.id].deleting \/ ~pods[old.id].exists \/ pods[old.id].uid > old.uid

\* C20: a delete call that fails leaves the campaign running and the loop
\* goes on to the next unit of the batch; when the first batch is done every
\* unit of it was either denied or given a delete call, and the units the
\* polling waits for are exactly those of the first batch that were removed.
C20_DeleteFailureSkipsUnit ==
    /\ [](\A t \in Workers :
             task[t].pc \in {"wait", "poll"}
                 => /\ \A p \in Ids(task[t].firstBatch) :
                          Admitted(t, p) <=> p \in task[t].deleteCalls
                    /\ Ids(task[t].restartedPods)
                           = {task[t].firstBatch[j].id : j \in
                                {i \in 1..Len(task[t].firstBatch) :
                                    Removed(task[t].firstBatch[i])}}
                    /\ Ids(task[t].restartedPods) \subseteq task[t].deleteCalls)
    /\ [][\A t \in Workers :
             LET a == task[t]
                 b == task'[t]
             IN  (a.pc \in {"batch1", "batch2"} /\ b.deleteCalls # a.deleteCalls
                    /\ pods' = pods /\ b.pc # "idle")
                   => /\ b.pc = a.pc
                      /\ b.i = a.i + 1
                      /\ b.campaign = "Running"
                      /\ ~b.rollErr
                      /\ b.restartedPods = a.restartedPods]_vars

\* C20 happens: the polling waits for the second unit of the first batch
\* alone, the delete call for the first unit having failed.
C20_Witness ==
    \E t \in Workers :
        /\ task[t].pc = "poll"
        /\ Len(task[t].firstBatch) = 2
        /\ task[t].firstBatch[1].id \in task[t].deleteCalls
        /\ ~Removed(task[t].firstBatch[1])
        /\ task[t].restartedPods = <<task[t].firstBatch[2]>>

\* The campaign of t runs without budgets although the namespace has some:
\* the List call of loadPDBs failed.
BudgetsNotLoaded(t) ==
    /\ task[t].pc \in {"roll", "batch1", "wait", "poll", "batch2", "done"}
    /\ task[t].outcome = "Changed"
    /\ task[t].podsToRestart # <<>>
    /\ ~namespaceExcluded(task[t].req.namespace, task[t].excludeNamespaces)
    /\ task[t].pdbs = <<>>
    /\ pdbObjects[task[t].req.namespace] # <<>>

\* C21: whether or not the budgets could be listed, Reconcile goes on to the
\* campaign, with the budgets of the namespace or with none; a campaign
\* without budgets admits every unit, gives every unit of a batch it has
\* worked through a delete call, splits the candidates as usual and starts
\* its second batch only from a pass of the polling that found all healthy.
C21_BudgetListFailureProceeds ==
    /\ [](\A t \in Workers :
             BudgetsNotLoaded(t)
                 => /\ \A p \in PodIds : canDeletePod(PodTable[p].labels, task[t].pdbs)
                    /\ ~task[t].err
                    /\ task[t].pc \in {"wait", "poll", "batch2"}
                          => Ids(task[t].firstBatch) \subseteq task[t].deleteCalls
                    /\ (task[t].pc = "done" /\ task[t].campaign = "Done"
                          /\ task[t].restartedPods # <<>>)
                          => Ids(task[t].podsToRestart) \subseteq task[t].deleteCalls
                    /\ (task[t].campaign # "None" /\ ~task[t].yoloMode)
                          => /\ task[t].firstBatch = firstBatchOf(task[t].podsToRestart)
                             /\ task[t].secondBatch = secondBatchOf(task[t].podsToRestart))
    /\ [][\A t \in Workers :
             LET a == task[t]
                 b == task'[t]
             IN  /\ (a.pc = "pdbs" /\ b.pc \notin {"pdbs", "idle"})
                       => /\ b.pc = "roll"
                          /\ ~b.err
                          /\ b.pdbs \in {<<>>, pdbObjects[a.req.namespace]}
                          /\ b.podsToRestart = a.podsToRestart
                 /\ (BudgetsNotLoaded(t) /\ a.pc # "batch2" /\ b.pc = "batch2")
                       => a.pc = "poll" /\ a.allHealthy /\ a.j = Len(a.restartedPods)
                 /\ (BudgetsNotLoaded(t) /\ a.pc = "batch1" /\ b.pc = "done")
                       => a.restartedPods = <<>> \/ a.secondBatch = <<>>]_vars

\* C21 happens: a campaign without budgets is in its second batch, having
\* deleted in its first a unit that a budget of the namespace denies.
C21_Witness ==
    \E t \in Workers : \E p \in Ids(task[t].restartedPods) :
        /\ BudgetsNotLoaded(t)
        /\ task[t].pc = "batch2"
        /\ ~canDeletePod(PodTable[p].labels, pdbObjects[task[t].req.namespace])

\* C22: once the context is cancelled during the settle wait or the polling,
\* the next step of the campaign is its return, and no delete call is issued
\* from then on, in particular none for a unit of the second batch.
C22_CancelReturnsPromptly ==
    [][\A t \in Workers :
          LET a == task[t]
              b == task'[t]
          IN  (a.ctxDone /\ b # a /\ b.pc # "idle")
                => /\ a.pc \in {"wait", "poll"} => b.pc = "done"
                   /\ b.deleteCalls = a.deleteCalls]_vars

\* C23: the Reconcile of an aborted campaign returns no error and then only
\* returns (unless the process restarts), the store holding the version the campaign was started for and
\* the second batch without a delete call; the next observation of the
\* source, while it carries the stored version, is Unchanged and deletes
\* nothing, and a delete call is only ever issued for an observation whose
\* version differs from the one that was stored.
C23_AbortedNotRetried ==
    /\ [](\A t \in Workers :
             task[t].campaign = "Aborted"
                 => /\ task[t].pc = "done"
                    /\ ~task[t].err
                    /\ observed[task[t].req] = "Aborted"
                    /\ ReqString(task[t].req) \in DOMAIN configMapVersions
                    /\ configMapVersions[ReqString(task[t].req)] = task[t].resourceVersion
                    /\ SecondBatchCalls(task[t]) = {})
    /\ [][\A t \in Workers :
             LET a == task[t]
                 b == task'[t]
                 key == ReqString(a.req)
             IN  /\ (a.campaign = "Aborted" /\ b # a)
                       => /\ b = IdleTask
                          /\ pods' = pods
                          /\ \/ configMapVersions' = configMapVersions /\ observed' = observed
                             \/ configMapVersions' = <<>>
                 /\ (a.pc = "store" /\ b.pc \notin {"store", "idle"}
                        /\ observed[a.req] = "Aborted"
                        /\ key \in DOMAIN configMapVersions
                        /\ configMapVersions[key] = a.resourceVersion)
                       => b.pc = "done" /\ b.outcome = "Unchanged" /\ pods' = pods
                 /\ (b.deleteCalls # a.deleteCalls /\ b.pc # "idle")
                       => a.seen /\ a.lastVersion # a.resourceVersion]_vars

\* C23 happens: after an aborted campaign the source is observed again with
\* the stored version, while a unit of the second batch that was left alone
\* is still a candidate.
C23_Witness ==
    \E t \in Workers : \E p \in PodIds :
        /\ task[t].pc = "store"
        /\ observed[task[t].req] = "Aborted"
        /\ task[t].seen
        /\ task[t].lastVersion = task[t].resourceVersion
        /\ pods[p].exists
        /\ PodTable[p].ns = task[t].req.namespace
        /\ isCandidate(p, pods, task[t].req.name, <<>>)

Occurrences(seq, x) == Cardinality({k \in 1..Len(seq) : seq[k] = x})

\* The number of times the objects list the namespace.
NamespaceCount(items, ns) ==
    Cardinality({ij \in (1..Len(items)) \X (1..3) :
                    /\ ij[2] <= Len(items[ij[1]].excludeNamespaces)
                    /\ items[ij[1]].excludeNamespaces[ij[2]] = ns})

\* The number of times the objects list the pattern.
PatternCount(items, pattern) ==
    Cardinality({ij \in (1..Len(items)) \X (1..3) :
                    /\ ij[2] <= Len(items[ij[1]].excludePods)
                    /\ items[ij[1]].excludePods[ij[2]] = pattern})

\* The valid patterns and all patterns the objects may list.
ValidPatterns == { <<"^", "k">>, <<"b", "$">> }

AllPatterns == ValidPatterns \cup { <<"(", "w">> }

\* The list of objects in every order.
Reorderings(items) ==
    {[j \in 1..Len(items) |-> items[f[j]]] : f \in Permutations(1..Len(items))}

\* The policy is the union of what the objects list: each namespace and each
\* valid pattern as often as the objects list it, no invalid pattern, and
\* the unsafe flag when some object sets it.
IsUnionOf(policy, items) ==
    /\ \A ns \in {"ns1", "ns2", "ns3"} :
          Occurrences(policy.namespaces, ns) = NamespaceCount(items, ns)
    /\ \A re \in ValidPatterns :
          Occurrences(policy.podPatterns, re) = PatternCount(items, re)
    /\ \A re \in AllPatterns \ ValidPatterns : Occurrences(policy.podPatterns, re) = 0
    /\ policy.yoloMode <=> \E j \in 1..Len(items) : items[j].yoloMode

\* The policy that a task has loaded.
LoadedPolicy(r) ==
    [podPatterns |-> r.excludePatterns, namespaces |-> r.excludeNamespaces,
     yoloMode |-> r.yoloMode]

\* The policy that a successful load makes of the objects.
EffectivePolicy(items) ==
    [podPatterns |-> loadExclusionConfig(items, FALSE).podPatterns,
     namespaces |-> loadExclusionConfig(items, FALSE).namespaces,
     yoloMode |-> loadYoloMode(items, FALSE)]

EmptyPolicy == [podPatterns |-> <<>>, namespaces |-> <<>>, yoloMode |-> FALSE]

WithoutInvalid(items) ==
    LET Valid(pattern) == Compile(pattern).ok
    IN  [j \in 1..Len(items) |->
            [items[j] EXCEPT !.excludePods = SelectSeq(items[j].excludePods, Valid)]]

\* C26: a pattern that does not compile is dropped on its own: the policy
\* is the one the objects would give without that pattern, and a task that
\* has loaded anything has every valid pattern and every namespace of every
\* object, those of the object with the invalid pattern included, and no
\* invalid pattern.
C26_InvalidPatternDropped ==
    /\ EffectivePolicy(configs) = EffectivePolicy(WithoutInvalid(configs))
    /\ \A t \in Workers :
          (task[t].pc \in {"find", "done"} /\ LoadedPolicy(task[t]) # EmptyPolicy)
              => /\ \A j \in 1..Len(configs) :
                       /\ \A k \in 1..Len(configs[j].excludePods) :
                             Compile(configs[j].excludePods[k]).ok
                                 <=> configs[j].excludePods[k] \in Range(task[t].excludePatterns)
                       /\ Range(configs[j].excludeNamespaces)
                              \subseteq Range(task[t].excludeNamespaces)
                 /\ \A k \in 1..Len(task[t].excludePatterns) :
                       Compile(task[t].excludePatterns[k]).ok

\* C26 happens: a task has loaded the policy of an object whose first
\* pattern does not compile and whose second does, with a namespace, and of
\* another object with a valid pattern.
C26_Witness ==
    \E t \in Workers : \E j, m \in 1..Len(configs) :
        /\ task[t].pc \in {"find", "done"}
        /\ j # m
        /\ Len(configs[j].excludePods) = 2
        /\ ~Compile(configs[j].excludePods[1]).ok
        /\ Compile(configs[j].excludePods[2]).ok
        /\ configs[j].excludePods[2] \in Range(task[t].excludePatterns)
        /\ configs[j].excludeNamespaces # <<>>
        /\ Range(configs[j].excludeNamespaces) \subseteq Range(task[t].excludeNamespaces)
        /\ configs[m].excludePods # <<>>
        /\ configs[m].excludePods # configs[j].excludePods
        /\ Range(configs[m].excludePods) \cap ValidPatterns
               \subseteq Range(task[t].excludePatterns)
        /\ Len(task[t].excludePatterns) >= 2

\* The names of the ConfigMaps that the containers reference, by a bulk
\* import or by an individual environment entry.
ContainerRefNames(containers) ==
    UNION {{containers[i].envFrom[j].configMapRef : j \in 1..Len(containers[i].envFrom)}
              \cup {Deref(containers[i].env[j].valueFrom).configMapKeyRef :
                       j \in {k \in 1..Len(containers[i].env) :
                                containers[i].env[k].valueFrom # None}} :
           i \in 1..Len(containers)}

\* The names of the ConfigMaps that the volumes reference, directly or in a
\* projected volume.
VolumeRefNames(volumes) ==
    {volumes[i].configMap : i \in 1..Len(volumes)}
        \cup UNION {{Deref(volumes[i].projected).sources[j].configMap :
                        j \in 1..Len(Deref(volumes[i].projected).sources)} :
                    i \in {k \in 1..Len(volumes) : volumes[k].projected # None}}

\* The names of the ConfigMaps that the pod spec references in any form.
RefNames(spec) ==
    (VolumeRefNames(spec.volumes) \cup ContainerRefNames(spec.containers)
        \cup ContainerRefNames(spec.initContainers)) \ {Nil}

\* C27: usesSource is true exactly for a unit that references the named
\* source in a volume, a projected volume, a bulk import or an individual
\* environment entry of a regular or an init container, absent fields being
\* passed over; and the search finds exactly the live units of the namespace
\* that do, or nothing when the listing fails.
C27_UsesSourceIffReferenced ==
    /\ [](\A p \in PodIds : \A name \in SourceNames :
             podUsesConfigMap(PodTable[p].spec, name) <=> name \in RefNames(PodTable[p].spec))
    /\ [][\A t \in Workers :
             LET a == task[t]
                 b == task'[t]
             IN  (a.pc = "find" /\ b.pc \in {"pdbs", "done"} /\ a.excludePatterns = <<>>)
                   => Ids(b.podsToRestart)
                        \in { {},
                              {p \in PodIds :
                                  /\ pods[p].exists
                                  /\ PodTable[p].ns = a.req.namespace
                                  /\ pods[p].phase \notin {"Succeeded", "Failed"}
                                  /\ ~pods[p].deleting
                                  /\ a.req.name \in RefNames(PodTable[p].spec)} }]_vars

\* C27 happens: the search for a source has found a unit that reads an
\* individual entry in a regular container and a unit with a bulk import in
\* an init container, and has passed over a unit without references.
C27_Witness ==
    \E t \in Workers : \E p, q, r \in PodIds :
        /\ task[t].pc = "pdbs"
        /\ {p, q} \subseteq Ids(task[t].podsToRestart)
        /\ PodTable[p].spec = EnvSpec(task[t].req.name)
        /\ PodTable[q].spec = InitEnvFromSpec(task[t].req.name)
        /\ r \notin Ids(task[t].podsToRestart)
        /\ pods[r].exists
        /\ PodTable[r].ns = task[t].req.namespace
        /\ PodTable[r].spec = NoSpec

\* The pods of the namespace that the controller owner owns.
OwnerPods(ns, owner) == {p \in PodIds : PodTable[p].ns = ns /\ PodTable[p].owner = owner}

\* The candidate was deleted by the campaign and has no ready replacement.
TakenDown(r, old) ==
    /\ old.id \in r.deleteCalls
    /\ \/ pods[old.id].deleting
       \/ ~pods[old.id].exists
       \/ pods[old.id].uid > old.uid /\ ~isPodReady(pods[old.id])

\* C28: in a safe-mode campaign the units of one controller owner that the
\* campaign has deleted and that have no ready replacement are never more
\* than half of the units of that owner.
C28_HalfOfOwnerAtMost ==
    \A t \in Workers :
        (task[t].campaign # "None" /\ ~task[t].yoloMode)
            => \A x \in OwnersOf(task[t].podsToRestart) :
                  LET down == {j \in 1..Len(task[t].podsToRestart) :
                                  /\ PodTable[task[t].podsToRestart[j].id].ns = x[1]
                                  /\ PodTable[task[t].podsToRestart[j].id].owner = x[2]
                                  /\ TakenDown(task[t], task[t].podsToRestart[j])}
                  IN  2 * Cardinality(down) <= Cardinality(OwnerPods(x[1], x[2]))

\* The groups of the candidates: one for each controller owner, and one for
\* the candidates without a controller owner.
OwnerGroups(ps) ==
    {<<PodTable[ps[j].id].ns, PodTable[ps[j].id].owner>> : j \in 1..Len(ps)}

\* The candidates of the list that are in the group.
InGroup(ps, g) ==
    {ps[j].id : j \in {i \in 1..Len(ps) : /\ PodTable[ps[i].id].ns = g[1]
                                           /\ PodTable[ps[i].id].owner = g[2]}}

\* C29: the split is made within each owner's group: of every group the
\* first batch holds one half, rounded up or down, and the second batch the
\* other half.
C29_SplitWithinOwner ==
    \A t \in Workers :
        (task[t].campaign # "None" /\ ~task[t].yoloMode)
            => \A g \in OwnerGroups(task[t].podsToRestart) :
                  LET all == InGroup(task[t].podsToRestart, g)
                      first == InGroup(task[t].firstBatch, g)
                      second == InGroup(task[t].secondBatch, g)
                  IN  /\ first \cup second = all
                      /\ first \cap second = {}
                      /\ 2 * Cardinality(first)
                             \in {Cardinality(all) - 1, Cardinality(all), Cardinality(all) + 1}

\* The exclusions that the documentation calls built in.
DefaultExcludeNamespaces == {"kube-system"}

DefaultExcludePatterns == { <<"^", "coredns-", ".*">>, <<".*", "-csi-", ".*">> }

\* C30: with or without policy objects, no campaign issues a delete call
\* for a pod of the namespace kube-system or for a pod whose name matches
\* ^coredns-.* or .*-csi-.*.
C30_DefaultExclusionsApply ==
    \A t \in Workers : \A p \in task[t].deleteCalls :
        /\ PodTable[p].ns \notin DefaultExcludeNamespaces
        /\ \A re \in DefaultExcludePatterns : ~MatchString(re, PodTable[p].name)

\* The budgets the namespace of the campaign of t holds now admit the unit.
AdmittedNow(t, p) ==
    canDeletePod(PodTable[p].labels, pdbObjects[task[t].req.namespace])

\* C31: a candidate that the budgets denied when the campaign read them is
\* waited for: no campaign ends in Done having left such a unit without a
\* delete call although the budgets of the namespace have come to admit it.
C31_DeniedUnitIsAwaited ==
    \A t \in Workers :
        (task[t].pc = "done" /\ task[t].campaign = "Done")
            => \A p \in Ids(task[t].podsToRestart) :
                  (~canDeletePod(PodTable[p].labels, task[t].pdbs) /\ AdmittedNow(t, p))
                      => p \in task[t].deleteCalls

\* The units of a batch that the campaign r has deleted and a budget selects.
DeletedUnder(r, batch, pdb) ==
    {batch[j].id : j \in {i \in 1..Len(batch) :
                             /\ batch[i].id \in r.deleteCalls
                             /\ Removed(batch[i])
                             /\ BudgetMatches(pdb, PodTable[batch[i].id].labels)}}

\* C32: for every budget of the snapshot of a campaign and for either batch,
\* the units the budget selects that the batch has deleted are no more than
\* the disruptions the budget allows, and leave at least minAvailable of its
\* currentHealthy units.
C32_BatchWithinBudgets ==
    \A t \in Workers : \A j \in 1..Len(task[t].pdbs) :
        \A batch \in {task[t].firstBatch, task[t].secondBatch} :
            LET pdb == task[t].pdbs[j]
                n == Cardinality(DeletedUnder(task[t], batch, pdb))
            IN  /\ n <= pdb.disruptionsAllowed \/ n = 0
                /\ pdb.minAvailable # None
                      => (pdb.currentHealthy - n >= MinAvailableOf(pdb) \/ n = 0)

\* C33: the budgets of a campaign are read once, by loadPDBs, and are the
\* same list from then on, whatever becomes of the budgets of the namespace;
\* every unit of the first and of the second batch gets its delete call
\* exactly when that list admits it, each unit on its own.
C33_SnapshotDecidesAdmission ==
    [][\A t \in Workers :
          LET a == task[t]
              b == task'[t]
          IN  /\ (a.pc = "pdbs" /\ b.pc \notin {"pdbs", "idle"})
                    => b.pdbs \in {<<>>, pdbObjects[a.req.namespace]}
              /\ (a.pc # "pdbs" /\ b.pc # "idle") => b.pdbs = a.pdbs
              /\ (a.pc \in {"batch1", "batch2"} /\ b.pc = a.pc /\ b.i # a.i)
                    => LET pod == CurrentBatch(t)[a.i + 1]
                           admitted == canDeletePod(PodTable[pod.id].labels, a.pdbs)
                       IN  /\ b.i = a.i + 1
                           /\ pod.id \notin a.deleteCalls
                           /\ pod.id \in b.deleteCalls <=> admitted
                           /\ b.deleteCalls \subseteq a.deleteCalls \cup {pod.id}]_vars

\* C33 happens: the second batch has passed over a unit that the list of
\* the campaign denies and the budgets of the namespace admit by now, the
\* whole first batch having been admitted and deleted.
C33_Witness ==
    \E t \in Workers : \E q \in Ids(task[t].secondBatch) :
        /\ task[t].pc = "batch2"
        /\ task[t].i = Len(task[t].secondBatch)
        /\ Ids(task[t].restartedPods) = Ids(task[t].firstBatch)
        /\ task[t].pdbs # pdbObjects[task[t].req.namespace]
        /\ ~canDeletePod(PodTable[q].labels, task[t].pdbs)
        /\ AdmittedNow(t, q)
        /\ q \notin task[t].deleteCalls

\* The least whole number that is at least percent hundredths of total.
CeilPercent(percent, total) ==
    CHOOSE n \in 0..(percent * total) :
        /\ 100 * n >= percent * total
        /\ \A m \in 0..(percent * total) : 100 * m >= percent * total => m >= n

\* C34: a percentage minAvailable is resolved to percent hundredths of the
\* expected pods of the budget, rounded up (50% of 10 is 5, 30% of 10 is 3,
\* 25% of 10 is 3), an absolute minAvailable to itself; the unit is passed
\* over exactly when currentHealthy - 1 is less than the resolved value.
C34_PercentRoundsUp ==
    /\ getIntOrPercentValue(StrVal(50, TRUE), 10) = 5
    /\ getIntOrPercentValue(StrVal(30, TRUE), 10) = 3
    /\ getIntOrPercentValue(StrVal(25, TRUE), 10) = 3
    /\ getIntOrPercentValue(IntVal(3), 10) = 3
    /\ \A t \in Workers : \A j \in 1..Len(task[t].pdbs) :
          LET pdb == task[t].pdbs[j]
              val == Deref(pdb.minAvailable)
              resolved == getIntOrPercentValue(val, pdb.expectedPods)
          IN  (pdb.minAvailable # None /\ pdb.disruptionsAllowed > 0)
                => /\ val.type = "Int" => resolved = val.intVal
                   /\ (val.type = "String" /\ val.percent)
                         => resolved = CeilPercent(val.intVal, pdb.expectedPods)
                   /\ \A p \in Attempted(t) :
                         (Len(task[t].pdbs) = 1 /\ BudgetMatches(pdb, PodTable[p].labels))
                             => (p \in task[t].deleteCalls
                                    <=> pdb.currentHealthy - 1 >= resolved)

\* C34 happens: a unit has got its delete call under a budget whose
\* minAvailable is 25% of 10 expected pods, with 4 of them healthy, and so
\* with currentHealthy - 1 equal to the 3 that the percentage resolves to.
C34_Witness ==
    \E t \in Workers : \E p \in Attempted(t) :
        /\ Len(task[t].pdbs) = 1
        /\ task[t].pdbs[1].minAvailable = Some(StrVal(25, TRUE))
        /\ task[t].pdbs[1].expectedPods = 10
        /\ task[t].pdbs[1].currentHealthy = 4
        /\ p \in task[t].deleteCalls

\* C35: the candidates a campaign lists are units that are eligible at the
\* time of the listing, and the list is kept as it is; every delete call is
\* issued by restartBatch for the unit of the list it has come to, which has
\* had no delete call before; so no call goes to a unit of another
\* namespace, to a unit that does not reference the source, or to a unit
\* that was completed, failed or terminating when the campaign listed the
\* pods; and no step of the campaign writes to the version store.
C35_OnlySnapshotTargeted ==
    /\ [](\A t \in Workers : \A p \in task[t].deleteCalls :
             /\ p \in Ids(task[t].podsToRestart)
             /\ PodTable[p].ns = task[t].req.namespace
             /\ podUsesConfigMap(PodTable[p].spec, task[t].req.name))
    /\ [][\A t \in Workers :
             LET a == task[t]
                 b == task'[t]
             IN  /\ (a.pc = "find" /\ b.pc \notin {"find", "idle"})
                       => /\ Ids(b.podsToRestart) \subseteq Eligible(t)
                          /\ Cardinality(Ids(b.podsToRestart)) = Len(b.podsToRestart)
                 /\ (a.pc \notin {"find", "idle", "done"} /\ b.pc # "idle")
                       => b.podsToRestart = a.podsToRestart
                 /\ (b.deleteCalls # a.deleteCalls /\ b.pc # "idle")
                       => a.pc \in {"batch1", "batch2"} /\ b.pc = a.pc /\ b.i = a.i + 1
                 /\ (a.pc \in {"batch1", "batch2"} /\ b.pc = a.pc /\ b.i # a.i)
                       => LET pod == CurrentBatch(t)[a.i + 1]
                          IN  /\ b.deleteCalls \subseteq a.deleteCalls \cup {pod.id}
                              /\ pod.id \notin a.deleteCalls
                 /\ (InCampaign(t) /\ b # a /\ b.pc # "idle")
                       => configMapVersions' = configMapVersions]_vars

\* C35 happens: a campaign has issued its delete calls and has left alone a
\* unit of another namespace that references the source, a unit of the
\* namespace that does not reference it, a failed unit and a unit that was
\* terminating already, both referencing it and excluded by no pattern.
C35_Witness ==
    \E t \in Workers : \E q, x, y, z \in PodIds \ task[t].deleteCalls :
        /\ task[t].pc = "done"
        /\ task[t].campaign = "Done"
        /\ task[t].deleteCalls # {}
        /\ \A u \in {q, x, y, z} : pods[u].exists /\ ~ExcludedByPolicy(t, u)
        /\ PodTable[q].ns # task[t].req.namespace
        /\ podUsesConfigMap(PodTable[q].spec, task[t].req.name)
        /\ PodTable[x].ns = task[t].req.namespace
        /\ ~podUsesConfigMap(PodTable[x].spec, task[t].req.name)
        /\ \A u \in {y, z} : /\ PodTable[u].ns = task[t].req.namespace
                              /\ podUsesConfigMap(PodTable[u].spec, task[t].req.name)
        /\ pods[y].phase = "Failed" /\ ~pods[y].deleting
        /\ pods[z].phase = "Running" /\ pods[z].deleting

\* C36: a campaign that is running ends, in Done or in Aborted, whatever
\* the budgets, whichever Delete calls and List calls fail and whether or
\* not the owners replace the deleted pods, as long as the process runs and
\* time advances.
C36_CampaignTerminates ==
    \A t \in Workers :
        (task[t].campaign = "Running") ~> (task[t].campaign \in {"Done", "Aborted"})

\* C36 happens: a campaign under budgets has ended at the deadline, one of
\* its delete calls having failed and a pod it deleted still terminating,
\* with no replacement.
C36_Witness ==
    \E t \in Workers : \E p, q \in task[t].deleteCalls :
        /\ task[t].pc = "done"
        /\ task[t].campaign = "Aborted"
        /\ task[t].polls = MaxPolls
        /\ task[t].pdbs # <<>>
        /\ p \notin Ids(task[t].restartedPods)
        /\ q \in Ids(task[t].restartedPods)
        /\ PodTable[q].owner # Nil
        /\ pods[q].deleting
        /\ pods[q].uid = 0

\* C37: while the process runs, the entry of a source leaves the store only
\* in a Reconcile whose fetch found the source missing; a Reconcile whose
\* fetch failed otherwise leaves the store as it is, so that the stored
\* version is there to compare the next fetched version with.
C37_TransientErrorKeepsEntry ==
    [][/\ \A t \in Workers :
             LET a == task[t]
                 b == task'[t]
             IN  (a.pc = "cleanup" /\ a.getErr # "NotFound" /\ b.pc \notin {"cleanup", "idle"})
                    => configMapVersions' = configMapVersions
       /\ \A key \in DOMAIN configMapVersions \ DOMAIN configMapVersions' :
             \/ \E t \in Workers :
                   /\ task[t].pc = "cleanup"
                   /\ task[t].getErr = "NotFound"
                   /\ ReqString(task[t].req) = key
                   /\ task'[t].pc = "done"
             \/ \A t \in Workers : task'[t] = IdleTask]_vars

\* The AutoApplyConfig objects of the cluster exclude the unit.
ExcludedByCluster(p) ==
    LET policy == loadExclusionConfig(configs, FALSE)
    IN  \/ namespaceExcluded(PodTable[p].ns, policy.namespaces)
        \/ isPodExcluded(PodTable[p].name, policy.podPatterns)

\* C38: whether or not the campaign could list the policy objects, it
\* issues no delete call for a unit that the policy objects of the cluster
\* exclude.
C38_ExclusionsFailClosed ==
    \A t \in Workers : \A p \in task[t].deleteCalls : ~ExcludedByCluster(p)

\* The task has classified a change of the source from one version to
\* another and is in the Reconcile that launches the campaign for it.
LaunchedFor(t, k, from, to) ==
    /\ task[t].pc \notin {"idle", "get", "cleanup", "load", "store"}
    /\ task[t].outcome = "Changed"
    /\ task[t].req = k
    /\ task[t].lastVersion = from
    /\ task[t].resourceVersion = to

C40_DeleteHitsListedInstance ==
    [][\A t \in Workers :
          LET a == task[t]
              b == task'[t]
          IN  (a.pc \in {"batch1", "batch2"} /\ b.pc = a.pc /\ b.i = a.i + 1
                 /\ pods' # pods)
                => LET pod == CurrentBatch(t)[a.i + 1]
                   IN  /\ pods' = DeletePod(pods, pod.id)
                       /\ pods[pod.id].uid = pod.uid]_vars

====
